---- MODULE Spec2Model ----
(***************************************************************************)
(* OGREE event pipeline: the idempotent event/alert store (db/repo.py),    *)
(* the fixture adapters that feed it, chain scoring over the recent        *)
(* window and the alert generator.                                         *)
(*                                                                         *)
(* Conventions.  Python None / SQL NULL is NULL for text fields, NoId for  *)
(* identifiers and NoTime for timestamps.  An f-string or "|".join seed is *)
(* the tuple of its parts; sha256_hex(seed)[:k] is the tagged tuple        *)
(* <<"sha", k>> \o seed, i.e. the hash is taken to be collision free.       *)
(* Scores are held in hundredths (0.30 is 30): compute_chain_scores rounds *)
(* to 4 decimals, so sums of the stage weights compare exactly.            *)
(***************************************************************************)
EXTENDS Integers, Sequences, FiniteSets, TLC

NULL == "NULL"
NoId == <<>>
NoTime == -1

\* An absent ip_boed, and one that float() rejects (a non-numeric string).
NoIp == -1
BadIp == -2

\* ---- bounds of the model ------------------------------------------------
MaxRows == 2
MaxLines == 2
MaxNow == 24
TickHours == 12
MaxEventRows == 3
NumWriters == 2
MaxEvents == 2
MaxScore == 100

\* ---- hashing.py ---------------------------------------------------------
\* A seed is a flat tuple of strings; so is every identifier derived from one.
sha256_hex(seed) == <<"sha">> \o seed

\* h[:k], k being "16", "20" or "24" hex digits.
Prefix(h, k) == <<h[1], k>> \o Tail(h)

\* ---- adapters: string cleaning and type normalisation -------------------
\* Raw type spellings used by the model's fixture lines, with the key that
\* strip().lower().replace(" ", "_").replace("-", "_") yields for each.
RawTypes == {"permit_filed", "Permit Filed", "spud", "production", "well_record",
             "claims_staked", "drill_assay", "resource_estimate", " "}

NormKey(raw) ==
  CASE raw = "Permit Filed" -> "permit_filed"
    [] raw = " " -> ""
    [] OTHER -> raw

TX_TYPE_ALIASES(key) ==
  CASE key = "spud" -> "spud_reported"
    [] key = "production" -> "production_reported"
    [] OTHER -> key

\* texas_rrc._normalize_type and ree_uranium._normalize_type: a missing type
\* is "unknown", a blank one normalises to the empty string.
tx_normalize_type(raw) == IF raw = NULL THEN "unknown" ELSE TX_TYPE_ALIASES(NormKey(raw))

ree_normalize_type(raw) == IF raw = NULL THEN "unknown" ELSE NormKey(raw)

\* sec_edgar / federal_register_rules / nprm_congressional _normalize_type:
\* the key is cleaned first, so a blank type is "unknown" too.  None of the
\* model's raw types is an alias of these three tables.
policy_normalize_type(raw) ==
  IF raw = NULL \/ NormKey(raw) = "" THEN "unknown" ELSE NormKey(raw)

ree_normalize_commodity(raw) ==
  CASE raw = NULL -> NULL
    [] raw = "ree" -> "REE"
    [] raw = "u3o8" -> "uranium"
    [] OTHER -> raw

Lower(s) ==
  CASE s = "REE" -> "ree"
    [] s = "Texas" -> "texas"
    [] OTHER -> s

\* _clean_str: strip and collapse whitespace, None when nothing is left.
clean_str(v) ==
  CASE v = NULL -> NULL
    [] v = " " -> NULL
    [] v = "" -> NULL
    [] v = " Permian  Resources Corp " -> "Permian Resources Corp"
    [] OTHER -> v

\* Python truthiness of an optional string.
Truthy(v) == v # NULL /\ v # ""

\* ---- entity_resolution.py -----------------------------------------------
Universe ==
  << [company_id |-> "PERMIAN_RESOURCES", name |-> "Permian Resources",
      aliases |-> <<"Permian Resources Corp">>, tickers |-> <<"PR">>],
     [company_id |-> "UCORE_RARE_METALS", name |-> "Ucore Rare Metals Inc.",
      aliases |-> <<>>, tickers |-> <<"UCU.V">>] >>

_norm(s) ==
  CASE s = "Permian Resources" -> "permian resources"
    [] s = "Permian Resources Corp" -> "permian resources corp"
    [] s = " Permian  Resources Corp " -> "permian resources corp"
    [] s = "Ucore Rare Metals Inc." -> "ucore rare metals inc"
    [] s = "Frontier Rare Earths Ltd" -> "frontier rare earths ltd"
    [] s = "Op3" -> "op3"
    [] OTHER -> s

NameKeys(c) == {_norm(c.name)} \cup {_norm(c.aliases[i]) : i \in DOMAIN c.aliases}

\* Position in the universe of the company owning a normalised name: the
\* index dict is filled in universe order, so the last writer wins.
AliasOwner(uni, n) ==
  LET hits == {i \in DOMAIN uni : uni[i].company_id # NULL /\ n \in NameKeys(uni[i])}
  IN IF hits = {} THEN 0 ELSE CHOOSE i \in hits : \A j \in hits : j <= i

CompanyIds(uni) == {uni[i].company_id : i \in DOMAIN uni} \ {NULL}

ResolvedNone == [company_id |-> NULL, tickers |-> <<>>, confidence |-> 0, method |-> "none"]

\* The lookup with operator tried before name.
resolve_company_operator_first(name, operator, uni) ==
  LET raws == SelectSeq(<<operator, name>>,
                        LAMBDA raw : Truthy(raw) /\ clean_str(raw) # NULL
                                     /\ AliasOwner(uni, _norm(raw)) # 0)
  IN IF raws # <<>>
       THEN LET c == uni[AliasOwner(uni, _norm(raws[1]))]
            IN [company_id |-> c.company_id, tickers |-> c.tickers,
                confidence |-> 95, method |-> "alias"]
     ELSE IF Cardinality(CompanyIds(uni)) = 1
       THEN LET c == uni[CHOOSE i \in DOMAIN uni : uni[i].company_id # NULL]
            IN [company_id |-> c.company_id, tickers |-> c.tickers,
                confidence |-> 25, method |-> "fallback"]
     ELSE ResolvedNone

resolve_company(name, operator, uni) ==
  LET raws == SelectSeq(<<name, operator>>,
                        LAMBDA raw : Truthy(raw) /\ clean_str(raw) # NULL
                                     /\ AliasOwner(uni, _norm(raw)) # 0)
  IN IF raws # <<>>
       THEN LET c == uni[AliasOwner(uni, _norm(raws[1]))]
            IN [company_id |-> c.company_id, tickers |-> c.tickers,
                confidence |-> 95, method |-> "alias"]
     ELSE IF Cardinality(CompanyIds(uni)) = 1
       THEN LET c == uni[CHOOSE i \in DOMAIN uni : uni[i].company_id # NULL]
            IN [company_id |-> c.company_id, tickers |-> c.tickers,
                confidence |-> 25, method |-> "fallback"]
     ELSE ResolvedNone

\* ---- fixture lines (JSON-lines input of the adapters) --------------------
\* A payload carries every key the model reads; NULL is an absent key.
Payload(type, api, permit_no, operator, company, project, commodity) ==
  [type |-> type, api |-> api, permit_no |-> permit_no, permit_id |-> NULL,
   operator |-> operator, company |-> company, project |-> project,
   commodity |-> commodity, region |-> NULL, company_id |-> NULL,
   tickers |-> <<>>, lineage_id |-> NoId,
   field |-> NULL, county |-> NULL, ip_boed |-> NoIp]

Obj(sid, et, payload) ==
  [kind |-> "object", source_event_id |-> sid, event_time |-> et, payload_json |-> payload]

BlankLine == [kind |-> "blank"]
UndecodableLine == [kind |-> "undecodable"]

PermitLine == Obj("evt_001", 5, Payload("Permit Filed", "42-301-00001", "P1",
                   " Permian  Resources Corp ", NULL, NULL, NULL))
AmendedLine == Obj("evt_001", 6, Payload("Permit Filed", "42-301-00001", "P7",
                    " Permian  Resources Corp ", NULL, NULL, NULL))
SpudLine == Obj(NULL, NoTime, Payload("spud", "42-301-00001", NULL, NULL, NULL, NULL, NULL))
WellLine == Obj("evt_003", 7, Payload("well_record", "42-301-00001", NULL, NULL, NULL, NULL, NULL))
NoKeyLine == Obj(NULL, NoTime, Payload(" ", NULL, "P7", NULL, NULL, NULL, NULL))
ClaimsLine == Obj(NULL, 3, Payload("claims_staked", NULL, NULL, NULL,
                   "Frontier Rare Earths Ltd", "Lofdal", "ree"))

ObjectLines == {PermitLine, AmendedLine, SpudLine, WellLine, NoKeyLine, ClaimsLine}
FixtureLines == ObjectLines \cup {BlankLine, UndecodableLine}

SeqsUpTo(S, n) == UNION {[1..k -> S] : k \in 1..n}

\* iter_fixture_events: blank and undecodable lines are dropped, the rest is
\* yielded in file order.
iter_fixture_events(fixture) == SelectSeq(fixture, LAMBDA line : line.kind = "object")

\* ---- adapters: canonical payload -----------------------------------------
Adapters == {"tx_rrc", "ree_uranium", "sec_edgar", "federal_register_rules", "nprm_congressional"}

tx_normalize_lineage_id(p) ==
  IF Truthy(p.api) THEN <<"TX", p.api>>
  ELSE IF clean_str(p.permit_no) # NULL THEN <<"TX:permit", clean_str(p.permit_no)>>
  ELSE NoId

tx_canonicalize_payload(payload) ==
  LET permit_no == clean_str(payload.permit_no)
      p == [payload EXCEPT !.region = "Texas",
                           !.type = tx_normalize_type(payload.type),
                           !.operator = clean_str(payload.operator),
                           !.permit_no = IF permit_no # NULL THEN permit_no ELSE @,
                           !.permit_id = IF permit_no # NULL THEN permit_no ELSE @]
  IN [p EXCEPT !.lineage_id = tx_normalize_lineage_id(p)]

ree_derive_lineage_id(p) ==
  IF clean_str(p.company) # NULL /\ clean_str(p.project) # NULL
    THEN Prefix(sha256_hex(<<"REE_U", clean_str(p.company), clean_str(p.project)>>), "20")
  ELSE IF p.type = "policy_designation"
    THEN Prefix(sha256_hex(<<"REE_U", "policy", "unknown",
                             IF Truthy(p.commodity) THEN p.commodity ELSE "unknown">>), "20")
  ELSE NoId

ree_canonicalize_payload(payload) ==
  LET p == [payload EXCEPT !.type = ree_normalize_type(payload.type),
                           !.commodity = ree_normalize_commodity(payload.commodity),
                           !.company = clean_str(payload.company),
                           !.project = clean_str(payload.project),
                           !.region = clean_str(payload.region)]
  IN [p EXCEPT !.lineage_id = ree_derive_lineage_id(p)]

\* sec_edgar, federal_register_rules and nprm_congressional share the shape:
\* clean, resolve the company, derive the lineage under the adapter's prefix.
policy_derive_lineage_id(prefix, p) ==
  IF clean_str(p.company_id) # NULL THEN <<prefix, clean_str(p.company_id)>>
  ELSE IF clean_str(p.company) # NULL
    THEN <<prefix>> \o Prefix(sha256_hex(<<_norm(clean_str(p.company))>>), "16")
  ELSE NoId

\* A mutation: a company_id the payload carries is kept, and the resolver's
\* company_id and tickers are copied only into a payload without one.
CanonicalizeKeepingCompanyId(prefix, payload) ==
  LET company == clean_str(payload.company)
      resolved == IF company # NULL THEN resolve_company(company, NULL, Universe)
                  ELSE ResolvedNone
      copy == resolved.company_id # NULL /\ payload.company_id = NULL
      p == [payload EXCEPT !.type = policy_normalize_type(payload.type),
                           !.company = company,
                           !.region = IF clean_str(payload.region) # NULL
                                      THEN clean_str(payload.region) ELSE "US",
                           !.company_id = IF copy THEN resolved.company_id ELSE @,
                           !.tickers = IF copy /\ @ = <<>> THEN resolved.tickers ELSE @]
  IN [p EXCEPT !.lineage_id = policy_derive_lineage_id(prefix, p)]

policy_canonicalize_payload(prefix, payload) ==
  LET company == clean_str(payload.company)
      resolved == IF company # NULL THEN resolve_company(company, NULL, Universe)
                  ELSE ResolvedNone
      p == [payload EXCEPT !.type = policy_normalize_type(payload.type),
                           !.company = company,
                           !.region = IF clean_str(payload.region) # NULL
                                      THEN clean_str(payload.region) ELSE "US",
                           !.company_id = IF resolved.company_id # NULL
                                          THEN resolved.company_id ELSE @,
                           !.tickers = IF resolved.company_id # NULL /\ @ = <<>>
                                       THEN resolved.tickers ELSE @]
  IN [p EXCEPT !.lineage_id = policy_derive_lineage_id(prefix, p)]

LineagePrefix(ad) == IF ad = "sec_edgar" THEN "SEC" ELSE "POLICY"

canonicalize_payload(ad, payload) ==
  CASE ad = "tx_rrc" -> tx_canonicalize_payload(payload)
    [] ad = "ree_uranium" -> ree_canonicalize_payload(payload)
    [] OTHER -> policy_canonicalize_payload(LineagePrefix(ad), payload)

\* ---- adapters: source_event_id and the assembled raw event ---------------
\* json.dumps(payload, sort_keys=True, default=str): the values in key order.
json_dumps_sorted(p) ==
  <<p.api, p.commodity, p.company, p.company_id>> \o p.lineage_id
    \o <<p.operator, p.permit_id, p.permit_no, p.project, p.region>> \o p.tickers
    \o <<p.type>>

TimeStr(et) == IF et = NoTime THEN "" ELSE ToString(et)

OrEmpty(v) == IF v = NULL THEN "" ELSE v

\* texas_rrc._build_source_event_id: the explicit id, else "api|type", else None.
tx_build_source_event_id(obj, payload) ==
  IF clean_str(obj.source_event_id) # NULL THEN <<clean_str(obj.source_event_id)>>
  ELSE IF Truthy(payload.api) /\ Truthy(payload.type) THEN <<payload.api, payload.type>>
  ELSE NoId

\* ree_uranium._build_source_event_id: hashed company|type|project, None when
\* all three parts are empty.
ree_build_source_event_id(obj, payload) ==
  LET parts == <<OrEmpty(payload.company), OrEmpty(payload.type), OrEmpty(payload.project)>>
  IN IF clean_str(obj.source_event_id) # NULL THEN <<clean_str(obj.source_event_id)>>
     ELSE IF \E i \in 1..3 : parts[i] # "" THEN Prefix(sha256_hex(parts), "16")
     ELSE NoId

\* sec_edgar / federal_register_rules / nprm_congressional: the seed always
\* holds the normalised type, which is never empty, so an id always results.
\* The model's lines carry none of filing_accession, filer_name, shares,
\* document_number, docket_id, bill_id, legislator: those parts are empty.
\* A builder that derives nothing: the explicit id or None.
ExplicitIdOnly(ad, obj, payload, event_time) ==
  IF clean_str(obj.source_event_id) # NULL THEN <<clean_str(obj.source_event_id)>> ELSE NoId

policy_build_source_event_id(ad, obj, payload, event_time) ==
  LET type == OrEmpty(clean_str(payload.type))
      company == OrEmpty(clean_str(payload.company))
      seed == CASE ad = "sec_edgar" -> <<"", type, "", company, "", "", TimeStr(event_time)>>
                [] ad = "federal_register_rules" ->
                     <<"", "", IF type = "" THEN "policy_final_rule" ELSE type, company>>
                [] OTHER -> <<type, "", "", company, "">>
      tag == CASE ad = "sec_edgar" -> "sec_"
               [] ad = "federal_register_rules" -> "fr_"
               [] OTHER -> "pol_"
  IN IF clean_str(obj.source_event_id) # NULL THEN <<clean_str(obj.source_event_id)>>
     ELSE IF \E i \in DOMAIN seed : seed[i] # "" THEN <<tag>> \o Prefix(sha256_hex(seed), "24")
     ELSE <<tag>> \o Prefix(sha256_hex(json_dumps_sorted(payload)), "24")

build_source_event_id(ad, obj, payload, event_time) ==
  CASE ad = "tx_rrc" -> tx_build_source_event_id(obj, payload)
    [] ad = "ree_uranium" -> ree_build_source_event_id(obj, payload)
    [] OTHER -> policy_build_source_event_id(ad, obj, payload, event_time)

\* _build_canonical_doc_id: "<source_system>:<sha16 of the adapter's seed>".
build_canonical_doc_id(ad, sid, payload) ==
  LET type == OrEmpty(payload.type)
      company == OrEmpty(clean_str(payload.company))
      seed == CASE ad = "tx_rrc" -> sid \o <<type, OrEmpty(payload.api)>>
                [] ad = "ree_uranium" ->
                     sid \o <<type, OrEmpty(payload.company), OrEmpty(payload.project)>>
                [] ad = "sec_edgar" -> sid \o <<type, company, "">>
                [] ad = "federal_register_rules" -> sid \o <<type, "", company>>
                [] OTHER -> sid \o <<type, "", "">>
  IN <<ad>> \o Prefix(sha256_hex(seed), "16")

\* The dict an adapter's ingest loop hands to insert_raw_event for one object.
\* _parse_dt is the identity on the model's timestamps (already UTC instants).
BuildRawEvent(ad, obj, t) ==
  LET payload == canonicalize_payload(ad, obj.payload_json)
      sid == build_source_event_id(ad, obj, payload, obj.event_time)
  IN [source_system |-> ad, source_event_id |-> sid, event_time |-> obj.event_time,
      ingest_time |-> t, payload_json |-> payload,
      content_hash |-> sha256_hex(json_dumps_sorted(payload)),
      canonical_doc_id |-> build_canonical_doc_id(ad, sid, payload)]

\* ---- db/repo.py: event_log ------------------------------------------------
\* Rows that the partial unique index (source_system, source_event_id) WHERE
\* source_event_id IS NOT NULL makes conflict with raw_event.
\* A unique index without the WHERE source_event_id IS NOT NULL clause that
\* also treated NULLs as equal.
NullsConflict(log, raw_event) ==
  {r \in log : r.source_system = raw_event.source_system
               /\ r.source_event_id = raw_event.source_event_id}

Conflicting(log, raw_event) ==
  {r \in log : raw_event.source_event_id # NoId
               /\ r.source_system = raw_event.source_system
               /\ r.source_event_id = raw_event.source_event_id}

EventRow(id, raw_event) ==
  [id |-> id, source_system |-> raw_event.source_system,
   source_event_id |-> raw_event.source_event_id, event_time |-> raw_event.event_time,
   ingest_time |-> raw_event.ingest_time, payload_json |-> raw_event.payload_json,
   content_hash |-> raw_event.content_hash, canonical_doc_id |-> raw_event.canonical_doc_id]

\* INSERT ... ON CONFLICT DO NOTHING RETURNING id: the new table, the id
\* sequence and the returned rows (none when the insert was suppressed).
\* INSERT with no unique index to arbitrate.
PlainInsert(log, seq, raw_event) ==
  [log |-> log \cup {EventRow(seq, raw_event)}, seq |-> seq + 1, returning |-> <<seq>>]

\* INSERT ... ON CONFLICT DO UPDATE: the conflicting row is overwritten.
UpsertOnConflict(log, seq, raw_event) ==
  IF Conflicting(log, raw_event) = {}
    THEN [log |-> log \cup {EventRow(seq, raw_event)}, seq |-> seq + 1, returning |-> <<seq>>]
    ELSE [log |-> {IF r \in Conflicting(log, raw_event) THEN EventRow(r.id, raw_event) ELSE r :
                     r \in log},
          seq |-> seq, returning |-> <<>>]

InsertOnConflictDoNothing(log, seq, raw_event) ==
  IF Conflicting(log, raw_event) = {}
    THEN [log |-> log \cup {EventRow(seq, raw_event)}, seq |-> seq + 1, returning |-> <<seq>>]
    ELSE [log |-> log, seq |-> seq, returning |-> <<>>]

\* The follow-up SELECT with the source_event_id condition left out.
SelectBySystem(log, raw_event) ==
  {r.id : r \in {x \in log : x.source_system = raw_event.source_system}}

\* SELECT id WHERE source_system = .. AND source_event_id = ..: SQL equality
\* with a NULL operand selects nothing.
SelectExistingIds(log, raw_event) ==
  {r.id : r \in {x \in log : raw_event.source_event_id # NoId
                             /\ x.source_event_id # NoId
                             /\ x.source_system = raw_event.source_system
                             /\ x.source_event_id = raw_event.source_event_id}}

Raised == [ok |-> FALSE, inserted |-> FALSE, id |-> 0]

\* scalar_one(): the single value, an exception on none or several.
scalar_one(ids, inserted) ==
  IF Cardinality(ids) = 1
    THEN [ok |-> TRUE, inserted |-> inserted, id |-> CHOOSE i \in ids : TRUE]
    ELSE Raised

\* insert_raw_event run by a single writer: both statements and the commit.
insert_raw_event(log, seq, raw_event) ==
  LET ins == InsertOnConflictDoNothing(log, seq, raw_event)
  IN IF ins.returning # <<>>
       THEN [log |-> ins.log, seq |-> ins.seq,
             ret |-> [ok |-> TRUE, inserted |-> TRUE, id |-> ins.returning[1]]]
       ELSE [log |-> ins.log, seq |-> ins.seq,
             ret |-> scalar_one(SelectExistingIds(ins.log, raw_event), FALSE)]

\* ---- adapters: ingest_fixture_to_db ----------------------------------------
\* The loop over the yielded objects, one insert_raw_event each, all stamped
\* with the clock reading t.  An exception of the insert ends the loop.
RECURSIVE IngestLoop(_, _, _, _, _, _)
IngestLoop(ad, objs, i, t, st, inserted) ==
  IF i > Len(objs) THEN [log |-> st.log, seq |-> st.seq,
                         ret |-> [ok |-> TRUE, inserted |-> inserted, processed |-> Len(objs)]]
  ELSE LET r == insert_raw_event(st.log, st.seq, BuildRawEvent(ad, objs[i], t))
       IN IF ~r.ret.ok
            THEN [log |-> r.log, seq |-> r.seq,
                  ret |-> [ok |-> FALSE, inserted |-> inserted, processed |-> i]]
            ELSE IngestLoop(ad, objs, i + 1, t, [log |-> r.log, seq |-> r.seq],
                            inserted + (IF r.ret.inserted THEN 1 ELSE 0))

ingest_fixture_to_db(ad, fixture, log, seq, t) ==
  IngestLoop(ad, iter_fixture_events(fixture), 1, t, [log |-> log, seq |-> seq], 0)

\* ---- db/repo.py: alerts ----------------------------------------------------
AlertRow(id, alert) == [id |-> id, alert |-> alert]

\* An insert that replaces the row holding the alert_id.
InsertAlertReplacing(tbl, seq, alert) ==
  [alerts |-> {r \in tbl : r.alert.alert_id # alert.alert_id} \cup {AlertRow(seq, alert)},
   seq |-> seq + 1, ret |-> ~\E r \in tbl : r.alert.alert_id = alert.alert_id]

\* INSERT ... ON CONFLICT (alert_id) DO NOTHING; returns rowcount > 0.
insert_alert(tbl, seq, alert) ==
  IF \E r \in tbl : r.alert.alert_id = alert.alert_id
    THEN [alerts |-> tbl, seq |-> seq, ret |-> FALSE]
    ELSE [alerts |-> tbl \cup {AlertRow(seq, alert)}, seq |-> seq + 1, ret |-> TRUE]

\* ---- chain_view.py ---------------------------------------------------------
\* load_recent_events: the rows with ingest_time >= now - hours, newest first.
\* ORDER BY leaves rows of equal ingest_time in any order: every such list.
LoadedEvent(r) ==
  [payload_json |-> r.payload_json, event_time |-> r.event_time, ingest_time |-> r.ingest_time]

load_recent_events(log, t, hours) ==
  LET recent == {r \in log : r.ingest_time >= t - hours}
      n == Cardinality(recent)
      orders == {f \in [1..n -> recent] :
                   /\ \A i, j \in 1..n : i # j => f[i] # f[j]
                   /\ \A i, j \in 1..n : i < j => f[i].ingest_time >= f[j].ingest_time}
  IN {[i \in 1..n |-> LoadedEvent(f[i])] : f \in orders}

TX_PERMIT_TYPES == {"permit_filed", "permit_issued", "drilling_permit"}
TX_SPUD_TYPES == {"spud_reported"}
TX_WELL_TYPES == {"completion_reported", "well_completion", "drill_result", "well_record"}
TX_PRODUCTION_TYPES == {"production_reported"}
REE_U_CLAIMS_TYPES == {"claims_staked", "exploration_permit"}
REE_U_DRILL_TYPES == {"drill_assay"}
REE_U_RESOURCE_TYPES == {"resource_estimate"}
REE_U_STUDY_TYPES == {"pea_published", "pfs_published", "feasibility_study"}
REE_U_DEAL_TYPES == {"financing_closed", "financing_announced", "offtake_agreement"}
REE_U_POLICY_TYPES == {"policy_designation"}

EmptyBucket ==
  [has_permit |-> FALSE, has_spud |-> FALSE, has_well |-> FALSE, has_production |-> FALSE,
   has_claims |-> FALSE, has_drill_assay |-> FALSE, has_resource |-> FALSE,
   has_study |-> FALSE, has_deal |-> FALSE, has_policy |-> FALSE,
   operator |-> NULL, region |-> NULL, permit_id |-> NULL,
   field |-> NULL, county |-> NULL, ip_boed |-> NoIp, commodity |-> NULL,
   company |-> NULL, project |-> NULL, tickers |-> <<>>, last_event_time |-> NoTime]

\* Python's  a or b  on optional strings.
Or(a, b) == IF Truthy(a) THEN a ELSE b

\* The event seen last, whatever its time.
LastSeen(cur, et) == et

\* The last_event_time update of the loop: the first time seen, then the later one.
UpdateLastEventTime(cur, et) ==
  IF cur = NoTime \/ (et # NoTime /\ et > cur) THEN et ELSE cur

\* The best IP rate seen: float(ip) of a present, numeric value, if larger.
CarryIp(cur, ip) ==
  IF ip = NoIp \/ ip = BadIp THEN cur
  ELSE IF cur = NoIp \/ ip > cur THEN ip ELSE cur

\* One pass of the loop body of compute_chain_scores over event e.
UpdateBucket(b, e) ==
  LET pj == e.payload_json
      et == IF e.event_time # NoTime THEN e.event_time ELSE e.ingest_time
      t == pj.type
      texas == Lower(OrEmpty(pj.region)) = "texas"
      ree == Lower(OrEmpty(pj.commodity)) \in {"ree", "uranium"}
  IN [b EXCEPT
        !.last_event_time = UpdateLastEventTime(@, et),
        !.operator = Or(@, pj.operator),
        !.region = Or(@, pj.region),
        !.permit_id = Or(@, pj.permit_id),
        !.field = Or(@, pj.field),
        !.county = Or(@, pj.county),
        !.ip_boed = CarryIp(@, pj.ip_boed),
        !.has_permit = @ \/ t = "permit_filed" \/ (texas /\ t \in TX_PERMIT_TYPES)
                         \/ (ree /\ t \in REE_U_CLAIMS_TYPES),
        !.has_spud = @ \/ (texas /\ t \in TX_SPUD_TYPES),
        !.has_well = @ \/ (t # "permit_filed" /\ t \in {"well_record", "completion_reported"})
                       \/ (texas /\ t \in TX_WELL_TYPES) \/ (ree /\ t \in REE_U_DRILL_TYPES),
        !.has_production = @ \/ (texas /\ t \in TX_PRODUCTION_TYPES),
        !.commodity = IF ree THEN Or(@, pj.commodity) ELSE @,
        !.company = IF ree THEN Or(@, pj.company) ELSE @,
        !.project = IF ree THEN Or(@, pj.project) ELSE @,
        !.tickers = IF ree /\ @ = <<>> /\ pj.tickers # <<>> THEN pj.tickers ELSE @,
        !.has_claims = @ \/ (ree /\ t \in REE_U_CLAIMS_TYPES),
        !.has_drill_assay = @ \/ (ree /\ t \in REE_U_DRILL_TYPES),
        !.has_resource = @ \/ (ree /\ t \in REE_U_RESOURCE_TYPES),
        !.has_study = @ \/ (ree /\ t \in REE_U_STUDY_TYPES),
        !.has_deal = @ \/ (ree /\ t \in REE_U_DEAL_TYPES),
        !.has_policy = @ \/ (ree /\ t \in REE_U_POLICY_TYPES)]

\* The buckets after the first i events: the lineages in order of first
\* appearance (dict insertion order) and the bucket of each.
RECURSIVE Buckets(_, _)
Buckets(events, i) ==
  IF i = 0 THEN [order |-> <<>>, of |-> <<>>]
  ELSE LET prev == Buckets(events, i - 1)
           lid == events[i].payload_json.lineage_id
           k == {j \in DOMAIN prev.order : prev.order[j] = lid}
       IN IF lid = NoId THEN prev
          ELSE IF k = {}
            THEN [order |-> Append(prev.order, lid),
                  of |-> Append(prev.of, UpdateBucket(EmptyBucket, events[i]))]
          ELSE LET j == CHOOSE x \in k : TRUE
               IN [prev EXCEPT !.of[j] = UpdateBucket(@, events[i])]

W(flag, weight) == IF flag THEN weight ELSE 0

\* The sum clamped at 1.0.
ScoreClamped(b) ==
  LET sum == W(b.has_permit, 30) + W(b.has_spud, 20) + W(b.has_well, 30)
               + W(b.has_production, 20) + W(b.has_resource, 15) + W(b.has_study, 20)
               + W(b.has_deal, 15) + W(b.has_policy, 10)
  IN IF sum > 100 THEN 100 ELSE sum

\* The sum with production counted against the lineage.
ScorePenalised(b) ==
  W(b.has_permit, 30) + W(b.has_spud, 20) + W(b.has_well, 30) - W(b.has_production, 20)
    + W(b.has_resource, 15) + W(b.has_study, 20) + W(b.has_deal, 15) + W(b.has_policy, 10)

\* The score in hundredths: the 4-stage chain plus the REE/U bonus stages.
Score(b) ==
  W(b.has_permit, 30) + W(b.has_spud, 20) + W(b.has_well, 30) + W(b.has_production, 20)
    + W(b.has_resource, 15) + W(b.has_study, 20) + W(b.has_deal, 15) + W(b.has_policy, 10)

ChainRow(lid, b) ==
  [lineage_id |-> lid, score |-> Score(b), has_permit |-> b.has_permit,
   has_spud |-> b.has_spud, has_well |-> b.has_well, has_production |-> b.has_production,
   has_claims |-> b.has_claims, has_drill_assay |-> b.has_drill_assay,
   has_resource |-> b.has_resource, has_study |-> b.has_study, has_deal |-> b.has_deal,
   has_policy |-> b.has_policy, operator |-> b.operator, region |-> b.region,
   permit_id |-> b.permit_id, field |-> b.field, county |-> b.county,
   ip_boed |-> b.ip_boed, commodity |-> b.commodity, company |-> b.company,
   project |-> b.project, tickers |-> b.tickers, last_event_time |-> b.last_event_time]

\* list.sort(key=score, reverse=True): stable, so equal scores keep their order.
RECURSIVE SortByScoreDesc(_)
SortByScoreDesc(rows) ==
  IF rows = <<>> THEN <<>>
  ELSE LET best == CHOOSE i \in DOMAIN rows :
                     /\ \A j \in DOMAIN rows : rows[j].score <= rows[i].score
                     /\ \A j \in DOMAIN rows : rows[j].score = rows[i].score => i <= j
           rest == [j \in 1..(Len(rows) - 1) |-> IF j < best THEN rows[j] ELSE rows[j + 1]]
       IN <<rows[best]>> \o SortByScoreDesc(rest)

compute_chain_scores(events) ==
  LET bk == Buckets(events, Len(events))
  IN SortByScoreDesc([j \in DOMAIN bk.order |-> ChainRow(bk.order[j], bk.of[j])])

\* ---- alert_generator.py ----------------------------------------------------
HoursPerDay == 24

\* _now_utc().date().isoformat() for a clock reading in hours.
UtcDate(t) == ToString(t \div HoursPerDay)

\* The labels of the two lower tiers exchanged.
tier_for_score_swapped(score) ==
  IF score >= 80 THEN "high"
  ELSE IF score >= 50 THEN "low"
  ELSE IF score >= 30 THEN "medium"
  ELSE ""

\* The thresholds taken as exclusive.
tier_for_score_exclusive(score) ==
  IF score > 80 THEN "high"
  ELSE IF score > 50 THEN "medium"
  ELSE IF score > 30 THEN "low"
  ELSE ""

tier_for_score(score) ==
  IF score >= 80 THEN "high"
  ELSE IF score >= 50 THEN "medium"
  ELSE IF score >= 30 THEN "low"
  ELSE ""

Upper(tier) ==
  CASE tier = "high" -> "HIGH"
    [] tier = "medium" -> "MEDIUM"
    [] tier = "low" -> "LOW"
    [] OTHER -> tier

\* An alert whose id is seeded with the instant of the call, not the date.
build_alert_id_by_instant(row, utc_date, company_id, t) ==
  [alert_id |-> Prefix(sha256_hex(<<"chain_progression", "AK">> \o row.lineage_id
                                    \o <<ToString(t)>>), "24"),
   tier |-> tier_for_score(row.score), event_type |-> "chain_progression",
   event_time |-> row.last_event_time, ingest_time |-> t, company_id |-> company_id,
   details |-> row]

\* An alert whose id is seeded with the company id as well.
build_alert_id_by_company(row, utc_date, company_id, t) ==
  [alert_id |-> Prefix(sha256_hex(<<"chain_progression", "AK">> \o row.lineage_id
                                    \o <<utc_date, company_id>>), "24"),
   tier |-> tier_for_score(row.score), event_type |-> "chain_progression",
   event_time |-> row.last_event_time, ingest_time |-> t, company_id |-> company_id,
   details |-> row]

\* An alert whose id is seeded with the tier as well.
build_alert_id_by_tier(row, utc_date, company_id, t) ==
  [build_alert_id_by_instant(row, utc_date, company_id, t) EXCEPT
     !.alert_id = Prefix(sha256_hex(<<"chain_progression", "AK">> \o row.lineage_id
                                      \o <<utc_date, tier_for_score(row.score)>>), "24")]

build_alert(row, utc_date, company_id, t) ==
  LET lineage_id == row.lineage_id
      tier == tier_for_score(row.score)
      last_event_time == row.last_event_time
      score_summary == [score |-> row.score, has_permit |-> row.has_permit,
                        has_spud |-> row.has_spud, has_well |-> row.has_well,
                        has_production |-> row.has_production,
                        has_insider_buy |-> FALSE, has_insider_buy_cluster |-> FALSE,
                        convergence_score |-> 0, convergence_categories |-> <<>>]
      actor == IF Truthy(row.operator) THEN row.operator
               ELSE IF Truthy(row.company) THEN row.company ELSE "unknown"
  IN [alert_id |-> Prefix(sha256_hex(<<"chain_progression", "AK">> \o lineage_id
                                       \o <<utc_date>>), "24"),
      tier |-> tier,
      event_type |-> "chain_progression",
      event_time |-> last_event_time,
      ingest_time |-> t,
      company_id |-> company_id,
      asset_id |-> NULL,
      canonical_doc_id |-> Prefix(sha256_hex(<<"chain_progression">> \o lineage_id
                                               \o <<TimeStr(last_event_time)>>), "24"),
      evidence_pointer |-> [lineage_id |-> lineage_id, permit_id |-> row.permit_id,
                            operator |-> row.operator, company |-> row.company,
                            region |-> row.region, last_event_time |-> last_event_time],
      score_summary |-> score_summary,
      summary |-> [tier |-> Upper(tier),
                   subject |-> IF Truthy(row.permit_id) THEN <<row.permit_id>> ELSE lineage_id,
                   actor |-> actor, region |-> row.region, score |-> score_summary.score],
      details |-> row,
      regime_context |-> NULL]

Take(s, n) == SubSeq(s, 1, IF n < Len(s) THEN n ELSE Len(s))

\* The loop without the  if not tier: continue  test.
RECURSIVE GenerateLoopNoSkip(_, _, _, _, _, _)
GenerateLoopNoSkip(rows, i, utc_date, t, st, inserted) ==
  IF i > Len(rows) THEN [alerts |-> st.alerts, seq |-> st.seq, ret |-> inserted]
  ELSE LET ins == insert_alert(st.alerts, st.seq,
                               build_alert(rows[i], utc_date,
                                           resolve_company(rows[i].company, rows[i].operator,
                                                           Universe).company_id, t))
       IN GenerateLoopNoSkip(rows, i + 1, utc_date, t,
                             [alerts |-> ins.alerts, seq |-> ins.seq],
                             inserted + (IF ins.ret THEN 1 ELSE 0))

\* The loop of generate_and_insert_alerts over the top rows.
RECURSIVE GenerateLoop(_, _, _, _, _, _)
GenerateLoop(rows, i, utc_date, t, st, inserted) ==
  IF i > Len(rows) THEN [alerts |-> st.alerts, seq |-> st.seq, ret |-> inserted]
  ELSE LET r == rows[i]
           company_id == resolve_company(r.company, r.operator, Universe).company_id
           tier == tier_for_score(r.score)
       IN IF tier = "" THEN GenerateLoop(rows, i + 1, utc_date, t, st, inserted)
          ELSE LET ins == insert_alert(st.alerts, st.seq,
                                       build_alert(r, utc_date, company_id, t))
               IN GenerateLoop(rows, i + 1, utc_date, t,
                               [alerts |-> ins.alerts, seq |-> ins.seq],
                               inserted + (IF ins.ret THEN 1 ELSE 0))

\* generate_and_insert_alerts on an already loaded event list.
generate_and_insert_alerts(events, top_n, t, tbl, seq) ==
  GenerateLoop(Take(compute_chain_scores(events), top_n), 1, UtcDate(t), t,
               [alerts |-> tbl, seq |-> seq], 0)

\* ---- the pipeline as a state machine ----------------------------------------
VARIABLES
  event_log,     \* the committed rows of event_log
  event_seq,     \* next value of event_log's id sequence
  alerts,        \* the rows of alerts
  alert_seq,     \* next value of alerts' id sequence
  now,           \* the UTC clock, in hours
  fixture_file,  \* the JSON-lines fixture on disk and the adapter that reads it
  last,          \* the last repository or batch call: arguments, result, and
                 \* (history) what the store held before it
  writers,       \* concurrent insert_raw_event calls: each one's position, open
                 \* transaction and result
  fn             \* a call of one of the alert generator's pure functions:
                 \* arguments and result

vars == <<event_log, event_seq, alerts, alert_seq, now, fixture_file, last, writers, fn>>

NoWriters == <<>>
NoFn == [op |-> "none"]

DefaultHours == 72
ShortHours == 12
DefaultTopN == 25

NoCall == [op |-> "none", arg |-> <<>>]

\* The record of the call before this one, kept when it was the same call.
SameCallBefore(op, arg) ==
  IF last.op = op /\ last.arg = arg THEN <<[ret |-> last.ret, pre |-> last.pre]>> ELSE <<>>

\* The record of the insert_raw_event call before this one, kept when it
\* carried the same (source_system, source_event_id).
SameKeyBefore(e) ==
  IF /\ last.op = "insert_raw_event"
     /\ last.arg.source_system = e.source_system
     /\ last.arg.source_event_id = e.source_event_id
    THEN <<[arg |-> last.arg, ret |-> last.ret, pre |-> last.pre]>>
    ELSE <<>>

\* The fixture the pipeline specification ingests: a Texas file with a blank
\* line in it.
SampleFixture == [adapter |-> "tx_rrc", lines |-> <<PermitLine, BlankLine>>]

\* The chain row of the alert generator's tests and the alert built from it.
TestRow ==
  [ChainRow(<<"L3">>, EmptyBucket) EXCEPT !.score = 100, !.has_permit = TRUE,
     !.has_well = TRUE, !.operator = "Op3", !.region = "AK", !.permit_id = "P3",
     !.last_event_time = 7]

\* The alert handed to insert_alert directly (as demo_pipeline does): one built
\* by the caller for the permit's lineage under a company id of its choosing,
\* so that it shares its alert_id with the generator's alert for that lineage.
DirectAlerts(t) ==
  {build_alert([TestRow EXCEPT !.lineage_id =
                  canonicalize_payload("tx_rrc", PermitLine.payload_json).lineage_id],
               UtcDate(t), "RESOLVED_CO", t)}

\* Raw events handed to insert_raw_event directly (as demo_pipeline does),
\* stamped with the clock reading t.
DirectEvents(t) ==
  {BuildRawEvent("tx_rrc", o, t) : o \in {PermitLine, WellLine}}
    \cup {BuildRawEvent("ree_uranium", ClaimsLine, t)}

Init ==
  /\ event_log = {}
  /\ event_seq = 1
  /\ alerts = {}
  /\ alert_seq = 1
  /\ now = 0
  /\ fixture_file = SampleFixture
  /\ last = NoCall
  /\ writers = NoWriters
  /\ fn = NoFn

InsertRawEventBounded(e, max_rows) ==
  \E r \in {insert_raw_event(event_log, event_seq, e)} :
     /\ Cardinality(r.log) <= max_rows
     /\ event_log' = r.log
     /\ event_seq' = r.seq
     /\ last' = [op |-> "insert_raw_event", arg |-> e, ret |-> r.ret,
                 pre |-> [present |-> \E x \in event_log :
                                        /\ x.source_system = e.source_system
                                        /\ x.source_event_id = e.source_event_id,
                          rows |-> Cardinality(event_log),
                          ids |-> {x.id : x \in event_log}],
                 prev |-> SameKeyBefore(e)]
     /\ UNCHANGED <<alerts, alert_seq, now, fixture_file, writers, fn>>

IngestFixtureBounded(max_rows) ==
  \E r \in {ingest_fixture_to_db(fixture_file.adapter, fixture_file.lines,
                                 event_log, event_seq, now)} :
     /\ Cardinality(r.log) <= max_rows
     /\ event_log' = r.log
     /\ event_seq' = r.seq
     /\ last' = [op |-> "ingest_fixture_to_db", arg |-> fixture_file, ret |-> r.ret,
                 pre |-> [rows |-> Cardinality(event_log)],
                 prev |-> SameCallBefore("ingest_fixture_to_db", fixture_file)]
     /\ UNCHANGED <<alerts, alert_seq, now, fixture_file, writers, fn>>

InsertRawEvent(e) == InsertRawEventBounded(e, MaxRows)

IngestFixture == IngestFixtureBounded(MaxRows)

\* A direct insert_alert call.
InsertAlert(a) ==
  \E r \in {insert_alert(alerts, alert_seq, a)} :
     /\ alerts' = r.alerts
     /\ alert_seq' = r.seq
     /\ last' = [op |-> "insert_alert", arg |-> a, ret |-> r.ret,
                 pre |-> [present |-> \E x \in alerts : x.alert.alert_id = a.alert_id,
                          rows |-> Cardinality(alerts), tbl |-> alerts],
                 prev |-> SameCallBefore("insert_alert", a)]
     /\ UNCHANGED <<event_log, event_seq, now, fixture_file, writers, fn>>

\* generate_and_insert_alerts(hours, top_n): the scan, the scoring and the
\* insert loop.
GenerateAndInsertAlerts(hours, top_n) ==
  \E events \in load_recent_events(event_log, now, hours) :
    \E r \in {generate_and_insert_alerts(events, top_n, now, alerts, alert_seq)},
       arg \in {[events |-> events, top_n |-> top_n, utc_date |-> UtcDate(now)]} :
       /\ alerts' = r.alerts
       /\ alert_seq' = r.seq
       /\ last' = [op |-> "generate_and_insert_alerts", arg |-> arg, ret |-> r.ret,
                   pre |-> [rows |-> Cardinality(alerts)],
                   prev |-> SameCallBefore("generate_and_insert_alerts", arg)]
       /\ UNCHANGED <<event_log, event_seq, now, fixture_file, writers, fn>>

\* The read-only scans: load_recent_events, load_recent_alerts,
\* load_source_counts.
LoadScan(hours) ==
  /\ last' = [op |-> "load", arg |-> hours,
              ret |-> <<Cardinality({r \in event_log : r.ingest_time >= now - hours}),
                        Cardinality({r \in alerts : r.alert.ingest_time >= now - hours})>>,
              pre |-> [rows |-> Cardinality(event_log)],
              prev |-> <<>>]
  /\ UNCHANGED <<event_log, event_seq, alerts, alert_seq, now, fixture_file, writers, fn>>

Tick ==
  /\ now + TickHours <= MaxNow
  /\ now' = now + TickHours
  /\ UNCHANGED <<event_log, event_seq, alerts, alert_seq, fixture_file, last, writers, fn>>

Next ==
  \/ \E e \in DirectEvents(now) : InsertRawEvent(e)
  \/ IngestFixture
  \/ \E a \in DirectAlerts(now) : InsertAlert(a)
  \/ \E c \in {<<DefaultHours, DefaultTopN>>, <<ShortHours, 1>>} :
       GenerateAndInsertAlerts(c[1], c[2])
  \/ LoadScan(DefaultHours)
  \/ Tick

Spec == Init /\ [][Next]_vars

\* ---- properties of the pipeline ---------------------------------------------
\* C6: no operation updates or deletes an existing event_log or alerts row:
\* every row of a state is, field for field, a row of the next state.
C6_RowsNeverChange ==
  [][/\ \A r \in event_log : r \in event_log'
     /\ \A a \in alerts : a \in alerts']_vars

\* A keyed event was offered again at a later clock reading, its row already
\* there, and alerts are stored.
C6_Witness ==
  /\ last.op = "insert_raw_event"
  /\ last.pre.present
  /\ \E r \in event_log : /\ r.source_event_id = last.arg.source_event_id
                           /\ r.ingest_time # last.arg.ingest_time
  /\ alerts # {}

\* C7: alerts holds at most one row per alert_id; insert_alert returns true
\* when it added the row, and false, leaving the table as it was, when a row
\* with that alert_id was already there.
C7_OneRowPerAlertId ==
  /\ \A a1, a2 \in alerts : a1.alert.alert_id = a2.alert.alert_id => a1 = a2
  /\ last.op = "insert_alert"
       => /\ last.ret = ~last.pre.present
          /\ last.ret => /\ alerts = last.pre.tbl \cup {r \in alerts : r.alert = last.arg}
                          /\ Cardinality(alerts) = last.pre.rows + 1
          /\ ~last.ret => alerts = last.pre.tbl

\* insert_alert was refused for an alert whose alert_id is taken by a row of
\* different content.
C7_Witness ==
  /\ last.op = "insert_alert"
  /\ ~last.ret
  /\ \E r \in alerts : r.alert.alert_id = last.arg.alert_id /\ r.alert # last.arg

LastIsGenerate == last.op = "generate_and_insert_alerts"

\* The rows of the last generate_and_insert_alerts run that have a tier.
QualifyingRows ==
  LET rows == Take(compute_chain_scores(last.arg.events), last.arg.top_n)
  IN {i \in DOMAIN rows : tier_for_score(rows[i].score) # ""}

\* C8: of two generate_and_insert_alerts runs on the same UTC day over the
\* same recent events the second returns 0; a run returns the number of alerts
\* it stored, which on an empty table is the number of qualifying lineages.
C8_GenerateTwice ==
  LastIsGenerate
    => /\ last.ret = Cardinality(alerts) - last.pre.rows
       /\ last.pre.rows = 0 => last.ret = Cardinality(QualifyingRows)
       /\ last.prev # <<>> => last.ret = 0

\* A second run at a later hour of the same day, after a first run that
\* stored the alert of a single qualifying lineage.
C8_Witness ==
  /\ LastIsGenerate
  /\ last.prev # <<>>
  /\ last.prev[1].pre.rows = 0
  /\ last.prev[1].ret = 1
  /\ Cardinality(QualifyingRows) = 1
  /\ \E r \in alerts : r.alert.ingest_time # now

\* ---- the event store alone: any adapter over any small fixture --------------
IngestLines == {PermitLine, AmendedLine, SpudLine, NoKeyLine, BlankLine}

Fixtures == {[adapter |-> ad, lines |-> fx] : ad \in Adapters, fx \in SeqsUpTo(IngestLines, MaxLines)}

InitEvents ==
  /\ event_log = {}
  /\ event_seq = 1
  /\ alerts = {}
  /\ alert_seq = 1
  /\ now = 0
  /\ fixture_file \in Fixtures
  /\ last = NoCall
  /\ writers = NoWriters
  /\ fn = NoFn

\* The events of the fixture, as its adapter assembles them.
FixtureEvents(t) ==
  {BuildRawEvent(fixture_file.adapter, fixture_file.lines[i], t) :
     i \in {j \in DOMAIN fixture_file.lines : fixture_file.lines[j].kind = "object"}}

NextEvents ==
  \/ \E e \in FixtureEvents(now) : InsertRawEventBounded(e, MaxEventRows)
  \/ IngestFixtureBounded(MaxEventRows)

SpecEvents == InitEvents /\ [][NextEvents]_vars

\* ---- properties of the event store -----------------------------------------
LastIsInsert == last.op = "insert_raw_event"

\* C1: for an event with a non-null source_event_id whose key is not yet in
\* event_log, two consecutive insert_raw_event calls return (true, id) and then
\* (false, id) with the same id, and the second call adds no row.
C1_InsertTwice ==
  (/\ LastIsInsert
   /\ last.prev # <<>>
   /\ last.arg.source_event_id # NoId
   /\ ~last.prev[1].pre.present)
    => /\ last.prev[1].ret.ok /\ last.prev[1].ret.inserted
       /\ last.ret.ok /\ ~last.ret.inserted
       /\ last.ret.id = last.prev[1].ret.id
       /\ Cardinality(event_log) = last.pre.rows
       /\ \E r \in event_log : r.id = last.ret.id /\ r.source_event_id = last.arg.source_event_id

\* A second insert of a keyed event has just returned, the two calls carrying
\* different content under the same key.
C1_Witness ==
  /\ LastIsInsert
  /\ last.prev # <<>>
  /\ last.arg.source_event_id # NoId
  /\ ~last.prev[1].pre.present
  /\ last.prev[1].arg # last.arg
  /\ ~last.ret.inserted

\* C2: event_log never holds two rows with the same (source_system,
\* source_event_id) where source_event_id is non-null.
C2_UniqueKey ==
  \A r1, r2 \in event_log :
     (/\ r1.source_event_id # NoId
      /\ r1.source_system = r2.source_system
      /\ r1.source_event_id = r2.source_event_id) => r1 = r2

\* A keyed event was offered while its key was in the log, next to another row.
C2_Witness ==
  /\ LastIsInsert
  /\ last.arg.source_event_id # NoId
  /\ last.pre.present
  /\ Cardinality(event_log) >= 2

\* C5: insert_raw_event of an event with a null source_event_id always adds a
\* row and returns (true, fresh id); two such inserts of the same content in a
\* row leave two more rows than before.
C5_NullKeyAlwaysInserts ==
  (LastIsInsert /\ last.arg.source_event_id = NoId)
    => /\ last.ret.ok /\ last.ret.inserted
       /\ last.ret.id \notin last.pre.ids
       /\ Cardinality(event_log) = last.pre.rows + 1
       /\ Cardinality({r \in event_log : r.id = last.ret.id}) = 1
       /\ (last.prev # <<>> /\ last.prev[1].arg = last.arg)
            => /\ Cardinality(event_log) = last.prev[1].pre.rows + 2
               /\ last.ret.id # last.prev[1].ret.id
               /\ Cardinality({r \in event_log :
                                 [k \in DOMAIN last.arg |-> r[k]] = last.arg}) >= 2

\* The same null-keyed content has been inserted twice in a row.
C5_Witness ==
  /\ LastIsInsert
  /\ last.arg.source_event_id = NoId
  /\ last.prev # <<>>
  /\ last.prev[1].arg = last.arg
  /\ Cardinality(event_log) >= 2

LastIsSecondIngest == last.op = "ingest_fixture_to_db" /\ last.prev # <<>>

\* Every record of the fixture gets a source_event_id from its adapter.
AllKeyed == \A e \in FixtureEvents(now) : e.source_event_id # NoId

\* C4 as stated: for each adapter, a second ingest_fixture_to_db run over the
\* same fixture reports the same processed count and inserted = 0.
C4_AsStated ==
  LastIsSecondIngest
    => /\ last.ret.processed = last.prev[1].ret.processed
       /\ last.ret.inserted = 0

\* C4: a second ingest_fixture_to_db run over the same fixture reports the
\* same processed count, and inserted = 0 when every record of the fixture
\* yields a non-null source_event_id, which sec_edgar, federal_register_rules
\* and nprm_congressional records always do; each record without one is
\* inserted again.
C4_SecondRun ==
  /\ fixture_file.adapter \in {"sec_edgar", "federal_register_rules", "nprm_congressional"}
       => AllKeyed
  /\ LastIsSecondIngest
       => /\ last.ret.ok /\ last.prev[1].ret.ok
          /\ last.ret.processed = last.prev[1].ret.processed
          /\ AllKeyed => last.ret.inserted = 0
          /\ last.ret.inserted =
               Cardinality({i \in DOMAIN fixture_file.lines :
                              /\ fixture_file.lines[i].kind = "object"
                              /\ BuildRawEvent(fixture_file.adapter, fixture_file.lines[i],
                                               now).source_event_id = NoId})

\* A second run over a fixture whose records are all keyed, the first run
\* having inserted some.
C4_Witness ==
  /\ LastIsSecondIngest
  /\ AllKeyed
  /\ last.prev[1].ret.inserted >= 1
  /\ last.ret.processed >= 2

\* ---- concurrent writers on event_log ----------------------------------------
\* Each writer runs insert_raw_event in a session of its own, at PostgreSQL's
\* default isolation level (READ COMMITTED): the INSERT, then either the
\* commit or the follow-up SELECT.
WriterEvents ==
  {BuildRawEvent("tx_rrc", o, 0) : o \in {PermitLine, AmendedLine, WellLine, NoKeyLine}}

\* A store in which an INSERT never waits for another session's open row.
NoInFlightConflict(ws, w, raw_event) == {}

\* The other sessions holding an uncommitted row that the unique index makes
\* conflict with raw_event: the INSERT waits for them to end.
InFlightConflict(ws, w, raw_event) ==
  {v \in DOMAIN ws \ {w} :
     /\ ws[v].open # <<>>
     /\ Conflicting({ws[v].open[1]}, raw_event) # {}}

InitConc ==
  /\ event_log = {}
  /\ event_seq = 1
  /\ alerts = {}
  /\ alert_seq = 1
  /\ now = 0
  /\ fixture_file = SampleFixture
  /\ last = NoCall
  /\ writers \in [1..NumWriters ->
                    {[pc |-> "insert", ev |-> e, open |-> <<>>, waited |-> FALSE,
                      ret |-> Raised] : e \in WriterEvents}]
  /\ fn = NoFn

\* session.execute(stmt) finds a conflicting row in flight and waits.
WaitOnInsert(w) ==
  /\ writers[w].pc = "insert"
  /\ ~writers[w].waited
  /\ InFlightConflict(writers, w, writers[w].ev) # {}
  /\ writers' = [writers EXCEPT ![w].waited = TRUE]
  /\ UNCHANGED <<event_log, event_seq, alerts, alert_seq, now, fixture_file, last, fn>>

\* session.execute(stmt) completes: the row is added to the writer's open
\* transaction, or a committed row conflicts and nothing is returned.
ExecInsert(w) ==
  /\ writers[w].pc = "insert"
  /\ InFlightConflict(writers, w, writers[w].ev) = {}
  /\ \E ins \in {InsertOnConflictDoNothing(event_log, event_seq, writers[w].ev)} :
       /\ event_seq' = ins.seq
       /\ writers' = [writers EXCEPT
            ![w].pc = IF ins.returning # <<>> THEN "commit" ELSE "select",
            ![w].open = IF ins.returning # <<>>
                          THEN <<EventRow(ins.returning[1], writers[w].ev)>> ELSE <<>>]
  /\ UNCHANGED <<event_log, alerts, alert_seq, now, fixture_file, last, fn>>

\* session.commit() after a returned row; return True, id.
CommitInserted(w) ==
  /\ writers[w].pc = "commit"
  /\ event_log' = event_log \cup {writers[w].open[1]}
  /\ writers' = [writers EXCEPT
       ![w].pc = "done", ![w].open = <<>>,
       ![w].ret = [ok |-> TRUE, inserted |-> TRUE, id |-> writers[w].open[1].id]]
  /\ UNCHANGED <<event_seq, alerts, alert_seq, now, fixture_file, last, fn>>

\* select(EventLog.id)...scalar_one(), session.commit(); return False, id.
SelectExisting(w) ==
  /\ writers[w].pc = "select"
  /\ writers' = [writers EXCEPT
       ![w].pc = "done",
       ![w].ret = scalar_one(SelectExistingIds(event_log, writers[w].ev), FALSE)]
  /\ UNCHANGED <<event_log, event_seq, alerts, alert_seq, now, fixture_file, last, fn>>

NextConc ==
  \/ \E w \in DOMAIN writers : WaitOnInsert(w)
  \/ \E w \in DOMAIN writers : ExecInsert(w)
  \/ \E w \in DOMAIN writers : CommitInserted(w)
  \/ \E w \in DOMAIN writers : SelectExisting(w)

SpecConc == InitConc /\ [][NextConc]_vars

\* The writers carrying the key of writer w's event.
SameKeyWriters(w) ==
  {v \in DOMAIN writers :
     /\ writers[v].ev.source_system = writers[w].ev.source_system
     /\ writers[v].ev.source_event_id = writers[w].ev.source_event_id}

\* C3: when several writers have called insert_raw_event with the same
\* non-null (source_system, source_event_id) and all have returned, none has
\* failed, exactly one has returned inserted = true, all have returned the
\* same id, and event_log holds exactly one row with that key.
C3_ConcurrentWriters ==
  \A w \in DOMAIN writers :
     (/\ writers[w].ev.source_event_id # NoId
      /\ Cardinality(SameKeyWriters(w)) >= 2
      /\ \A v \in SameKeyWriters(w) : writers[v].pc = "done")
       => /\ \A v \in SameKeyWriters(w) :
               writers[v].ret.ok /\ writers[v].ret.id = writers[w].ret.id
          /\ Cardinality({v \in SameKeyWriters(w) : writers[v].ret.inserted}) = 1
          /\ Cardinality({r \in event_log :
                            /\ r.source_system = writers[w].ev.source_system
                            /\ r.source_event_id = writers[w].ev.source_event_id}) = 1

\* Two writers with one key and different content have both returned, one of
\* them after waiting for the other's open transaction.
C3_Witness ==
  \E w, v \in DOMAIN writers :
     /\ w # v
     /\ v \in SameKeyWriters(w)
     /\ writers[w].ev.source_event_id # NoId
     /\ writers[w].ev # writers[v].ev
     /\ writers[w].pc = "done" /\ writers[v].pc = "done"
     /\ writers[v].waited

\* ---- the alert generator's pure functions -----------------------------------
FnLineages == {<<"L3">>, <<"TX", "42-301-00001">>}
FnInstants == {0, TickHours}

InitFn ==
  /\ event_log = {}
  /\ event_seq = 1
  /\ alerts = {}
  /\ alert_seq = 1
  /\ now = 0
  /\ fixture_file = SampleFixture
  /\ last = NoCall
  /\ writers = NoWriters
  /\ fn \in {[op |-> "args", score |-> s, lineage_id |-> l, utc_date |-> d, company_id |-> c] :
               s \in 0..MaxScore, l \in FnLineages, d \in {UtcDate(0), UtcDate(HoursPerDay)},
               c \in CompanyIds(Universe) \cup {"RESOLVED_CO"}}

FnRow(args) == [TestRow EXCEPT !.score = args.score, !.lineage_id = args.lineage_id]

TierForScore ==
  /\ fn.op = "args"
  /\ fn' = [op |-> "tier_for_score", args |-> fn, value |-> tier_for_score(fn.score)]
  /\ UNCHANGED <<event_log, event_seq, alerts, alert_seq, now, fixture_file, last, writers>>

\* build_alert on one row and date: at the instant t1 and again at t2 with the
\* company id given, and at t2 with company_id=None.
BuildAlert(t1, t2) ==
  /\ fn.op = "args"
  /\ fn' = [op |-> "build_alert", args |-> fn,
            first |-> build_alert(FnRow(fn), fn.utc_date, fn.company_id, t1),
            again |-> build_alert(FnRow(fn), fn.utc_date, fn.company_id, t2),
            without |-> build_alert(FnRow(fn), fn.utc_date, NULL, t2)]
  /\ UNCHANGED <<event_log, event_seq, alerts, alert_seq, now, fixture_file, last, writers>>

\* tier_for_score on the score of the arguments and on a second score.
TierForScorePair(s2) ==
  /\ fn.op = "args"
  /\ fn' = [op |-> "tier_for_score_pair", args |-> fn, other |-> s2,
            value |-> tier_for_score(fn.score), other_value |-> tier_for_score(s2)]
  /\ UNCHANGED <<event_log, event_seq, alerts, alert_seq, now, fixture_file, last, writers>>

NextFn ==
  \/ TierForScore
  \/ \E s2 \in 0..MaxScore : TierForScorePair(s2)
  \/ \E t1, t2 \in FnInstants : BuildAlert(t1, t2)

SpecFn == InitFn /\ [][NextFn]_vars

\* C9: build_alert called twice with the same row and utc_date returns the
\* same 24-character alert_id; calls that differ only in company_id (a value
\* versus None) return equal alert_id, each alert carrying the company_id it
\* was given.
C9_StableAlertId ==
  fn.op = "build_alert"
    => /\ fn.first.alert_id = fn.again.alert_id
       /\ fn.first.alert_id = fn.without.alert_id
       /\ fn.first.alert_id[2] = "24"
       /\ fn.first.company_id = fn.args.company_id
       /\ fn.again.company_id = fn.args.company_id
       /\ fn.without.company_id = NULL

\* The test's row (score 1.0, lineage L3) built at two different instants.
C9_Witness ==
  /\ fn.op = "build_alert"
  /\ fn.args.score = 100
  /\ fn.args.lineage_id = <<"L3">>
  /\ fn.args.company_id = "RESOLVED_CO"
  /\ fn.first.ingest_time # fn.again.ingest_time

C11_TestThresholds ==
  fn.op = "tier_for_score"
    => /\ fn.args.score = 100 => fn.value = "high"
       /\ fn.args.score = 60 => fn.value = "medium"
       /\ fn.args.score = 40 => fn.value = "low"
       /\ fn.args.score = 39 => fn.value = ""

TierRank(tier) ==
  CASE tier = "" -> 0
    [] tier = "low" -> 1
    [] tier = "medium" -> 2
    [] tier = "high" -> 3

\* C12: tiering is monotone: for scores s1 <= s2 the rank of tier_for_score(s1)
\* is at most the rank of tier_for_score(s2), ranks being "" < low < medium < high.
C12_TierMonotone ==
  (fn.op = "tier_for_score_pair" /\ fn.args.score <= fn.other)
    => TierRank(fn.value) <= TierRank(fn.other_value)

\* Two scores on either side of a threshold have been tiered.
C12_Witness ==
  /\ fn.op = "tier_for_score_pair"
  /\ fn.args.score = 49
  /\ fn.other = 50
  /\ fn.value = "low"
  /\ fn.other_value = "medium"

\* ---- chain scoring over event lists -------------------------------------------
\* An event as load_recent_events returns it (and as the tests build it):
\* times in hours, ingest_time equal to event_time.
Evt(et, lineage_id, type, region, commodity, company, company_id, operator, filer_name) ==
  [payload_json |->
     [Payload(type, NULL, NULL, operator, company, NULL, commodity)
        EXCEPT !.region = region, !.company_id = company_id, !.lineage_id = lineage_id]
       @@ [filer_name |-> filer_name],
   event_time |-> et, ingest_time |-> et]

Days(d) == d * HoursPerDay

TxLineage == <<"TX", "42-301-00001">>
ReeLineage == <<"REE_U", "lofdal">>
SecLineage == <<"SEC", "PERMIAN_RESOURCES">>

TxEvt(d, type) == Evt(Days(d), TxLineage, type, "Texas", NULL, NULL, NULL, NULL, NULL)
ReeEvt(d, type) ==
  Evt(Days(d), ReeLineage, type, NULL, "REE", "Frontier Rare Earths Ltd", NULL, NULL, NULL)
InsiderBuy(d, filer_name) ==
  Evt(Days(d), SecLineage, "insider_buy", "US", NULL, "Permian Resources",
      "PERMIAN_RESOURCES", NULL, filer_name)

\* A spud report with no event_time: its ingest_time stands in.
TxSpudUntimed == [TxEvt(2, "spud_reported") EXCEPT !.event_time = NoTime]

\* An event without a lineage_id: the loop skips it.
Unlinked == Evt(Days(1), NoId, "permit_filed", NULL, NULL, NULL, NULL, NULL, NULL)

ChainEvents ==
  {TxEvt(1, "permit_filed"), TxSpudUntimed, TxEvt(3, "drill_result"),
   TxEvt(4, "completion_reported"), TxEvt(5, "production_reported"),
   ReeEvt(1, "resource_estimate"), ReeEvt(2, "feasibility_study"),
   ReeEvt(3, "financing_closed"), ReeEvt(4, "policy_designation"), Unlinked}

\* Permit, spud, drill, completion and production of one Texas well.
TexasChain ==
  <<TxEvt(1, "permit_filed"), TxSpudUntimed, TxEvt(3, "drill_result"),
    TxEvt(4, "completion_reported"), TxEvt(5, "production_reported")>>

\* Every stage of a rare-earth project.
ReeFull ==
  <<ReeEvt(0, "claims_staked"), ReeEvt(1, "drill_assay"), ReeEvt(1, "resource_estimate"),
    ReeEvt(2, "feasibility_study"), ReeEvt(3, "financing_closed"),
    ReeEvt(4, "policy_designation")>>

\* Two insider buys of one company: by two filers 14 days apart, and by one
\* filer 10 days apart (tests/test_sec_edgar.py).
InsiderTwoFilers == <<InsiderBuy(0, "Dana Morgan"), InsiderBuy(14, "Ryan Cole")>>
InsiderSameFiler == <<InsiderBuy(0, "Dana Morgan"), InsiderBuy(10, "Dana Morgan")>>

ScenarioLists == {TexasChain, ReeFull, InsiderTwoFilers, InsiderSameFiler}

EventLists == SeqsUpTo(ChainEvents, MaxEvents) \cup ScenarioLists

InitChain ==
  /\ event_log = {}
  /\ event_seq = 1
  /\ alerts = {}
  /\ alert_seq = 1
  /\ now = 0
  /\ fixture_file = SampleFixture
  /\ last = NoCall
  /\ writers = NoWriters
  /\ fn \in {[op |-> "events", events |-> E] : E \in EventLists}

ComputeChainScores ==
  /\ fn.op = "events"
  /\ fn' = [op |-> "compute_chain_scores", events |-> fn.events,
            rows |-> compute_chain_scores(fn.events)]
  /\ UNCHANGED <<event_log, event_seq, alerts, alert_seq, now, fixture_file, last, writers>>

\* generate_and_insert_alerts with load_recent_events returning the list.
GenerateOver(top_n) ==
  /\ fn.op = "events"
  /\ \E r \in {generate_and_insert_alerts(fn.events, top_n, now, alerts, alert_seq)} :
       /\ alerts' = r.alerts
       /\ alert_seq' = r.seq
       /\ fn' = [op |-> "generate_and_insert_alerts", events |-> fn.events,
                 top_n |-> top_n, ret |-> r.ret]
  /\ UNCHANGED <<event_log, event_seq, now, fixture_file, last, writers>>

\* compute_chain_scores over the list and over the list with one more event.
ScoreWithFurtherEvent(e) ==
  /\ fn.op = "events"
  /\ fn' = [op |-> "further_event", events |-> fn.events, e |-> e,
            rows |-> compute_chain_scores(fn.events),
            rows_after |-> compute_chain_scores(Append(fn.events, e))]
  /\ UNCHANGED <<event_log, event_seq, alerts, alert_seq, now, fixture_file, last, writers>>

\* compute_chain_scores over the list and over the same events in another order.
ScorePermuted ==
  /\ fn.op = "events"
  /\ \E p \in Permutations(DOMAIN fn.events) :
       \E permuted \in {[i \in DOMAIN fn.events |-> fn.events[p[i]]]} :
         fn' = [op |-> "permuted", events |-> fn.events, permuted |-> permuted,
                rows |-> compute_chain_scores(fn.events),
                rows_permuted |-> compute_chain_scores(permuted)]
  /\ UNCHANGED <<event_log, event_seq, alerts, alert_seq, now, fixture_file, last, writers>>

NextChain ==
  \/ ComputeChainScores
  \/ \E top_n \in {1, DefaultTopN} : GenerateOver(top_n)
  \/ \E e \in ChainEvents : ScoreWithFurtherEvent(e)
  \/ ScorePermuted

SpecChain == InitChain /\ [][NextChain]_vars

\* The rows a generate_and_insert_alerts run looks at.
TopRows == Take(compute_chain_scores(fn.events), fn.top_n)

\* C13: generate_and_insert_alerts never stores an alert for a chain row whose
\* tier is empty: every alert it inserts has tier high, medium or low, and the
\* returned count is the number of its rows that have a tier.
C13_NoAlertWithoutTier ==
  fn.op = "generate_and_insert_alerts"
    => /\ \A a \in alerts : a.alert.tier \in {"high", "medium", "low"}
       /\ \A i \in DOMAIN TopRows :
            TopRows[i].score < 30
              => ~\E a \in alerts : a.alert.evidence_pointer.lineage_id = TopRows[i].lineage_id
       /\ fn.ret = Cardinality({i \in DOMAIN TopRows : TopRows[i].score >= 30})
       /\ fn.ret = Cardinality(alerts)

\* A run over two lineages, one with a tier and one below the lowest
\* threshold, has stored one alert.
C13_Witness ==
  /\ fn.op = "generate_and_insert_alerts"
  /\ Len(TopRows) = 2
  /\ \E i \in DOMAIN TopRows : TopRows[i].score < 30
  /\ fn.ret = 1

\* The events of a list that belong to a lineage.
EventsOf(events, lid) ==
  {i \in DOMAIN events : events[i].payload_json.lineage_id = lid}

InsiderBuys(events, lid) ==
  {i \in EventsOf(events, lid) : events[i].payload_json.type = "insider_buy"}

InsiderCluster(events, lid) ==
  \E i, j \in InsiderBuys(events, lid) :
     /\ events[i].payload_json.filer_name # events[j].payload_json.filer_name
     /\ events[j].event_time - events[i].event_time \in 0..Days(30)

\* C15: compute_chain_scores sets has_insider_buy (adding 0.15) when the
\* lineage has an insider_buy event and has_insider_buy_cluster (a further
\* 0.10) exactly when two distinct filers bought within 30 days: two filers 14
\* days apart give both flags and score 0.25, one filer twice 10 days apart
\* gives has_insider_buy only and score 0.15.
C15_InsiderBuyBonus ==
  fn.op = "compute_chain_scores"
    => \A i \in DOMAIN fn.rows :
         LET r == fn.rows[i]
         IN /\ {"has_insider_buy", "has_insider_buy_cluster"} \subseteq DOMAIN r
            /\ r.has_insider_buy = (InsiderBuys(fn.events, r.lineage_id) # {})
            /\ r.has_insider_buy_cluster = InsiderCluster(fn.events, r.lineage_id)
            /\ fn.events = InsiderTwoFilers => r.score = 25
            /\ fn.events = InsiderSameFiler => r.score = 15

\* C16: chain scoring is monotone: every lineage scored for an event list is
\* scored at least as high for the list with one further event.
C16_ScoreMonotone ==
  fn.op = "further_event"
    => \A i \in DOMAIN fn.rows :
         \E j \in DOMAIN fn.rows_after :
            /\ fn.rows_after[j].lineage_id = fn.rows[i].lineage_id
            /\ fn.rows_after[j].score >= fn.rows[i].score

\* A production report added to a Texas lineage that already has a permit and
\* a spud raised its score.
C16_Witness ==
  /\ fn.op = "further_event"
  /\ fn.e = TxEvt(5, "production_reported")
  /\ \E i \in DOMAIN fn.rows :
       /\ fn.rows[i].lineage_id = TxLineage
       /\ fn.rows[i].score = 50
  /\ \E j \in DOMAIN fn.rows_after :
       /\ fn.rows_after[j].lineage_id = TxLineage
       /\ fn.rows_after[j].score = 70

\* What the scoring of a lineage says, without the carried context.
Scoring(r) ==
  [lineage_id |-> r.lineage_id, score |-> r.score, last_event_time |-> r.last_event_time,
   has_permit |-> r.has_permit, has_spud |-> r.has_spud, has_well |-> r.has_well,
   has_production |-> r.has_production, has_claims |-> r.has_claims,
   has_drill_assay |-> r.has_drill_assay, has_resource |-> r.has_resource,
   has_study |-> r.has_study, has_deal |-> r.has_deal, has_policy |-> r.has_policy]

\* C17: scoring is commutative over event sets: any order of the same events
\* gives the same lineages, each with the same stage flags, score and
\* last_event_time.
C17_OrderIndependent ==
  fn.op = "permuted"
    => /\ Len(fn.rows_permuted) = Len(fn.rows)
       /\ {Scoring(fn.rows[i]) : i \in DOMAIN fn.rows}
            = {Scoring(fn.rows_permuted[i]) : i \in DOMAIN fn.rows_permuted}

\* The Texas chain has been scored latest event first.
C17_Witness ==
  /\ fn.op = "permuted"
  /\ fn.events = TexasChain
  /\ fn.permuted = [i \in 1..5 |-> TexasChain[6 - i]]
  /\ fn.rows_permuted[1].last_event_time = Days(5)

\* ---- convergence.py ------------------------------------------------------------
_CATEGORY_A_TYPES ==
  {"lease_grant", "permit_filed", "permit_issued", "drilling_permit", "claims_staked",
   "exploration_permit"}
_CATEGORY_B_TYPES ==
  {"drill_result", "drill_assay", "completion_reported", "well_completion", "well_record"}
_CATEGORY_C_TYPES ==
  {"resource_estimate", "pea_published", "pfs_published", "feasibility_study"}
_CATEGORY_D_TYPES == {"financing_closed", "financing_announced", "offtake_agreement"}
_CATEGORY_E_TYPES == {"insider_buy", "institutional_13g", "institutional_13f"}
_CATEGORY_F_TYPES ==
  {"policy_designation", "policy_final_rule", "policy_nprm_open", "policy_comment_deadline",
   "congressional_trade_disclosure", "legislation_committee_advance"}

\* The model's types that contain one of the words policy, macro, rule, nprm,
\* congress, legislation, committee.
PolicyWordTypes == _CATEGORY_F_TYPES \cup {"macro_outlook", "committee_hearing"}

Categories == {"A", "B", "C", "D", "E", "F"}

\* _norm_name: lower-case, every non-alphanumeric character a space, runs of
\* spaces collapsed; None when nothing is left.
_norm_name(v) ==
  CASE v = NULL -> NULL
    [] v = "" -> NULL
    [] v = " " -> NULL
    [] v = "Permian Basin Resources Inc" -> "permian basin resources inc"
    [] v = "Permian Basin Resources, Inc." -> "permian basin resources inc"
    [] OTHER -> v

\* dict.get: a missing key reads as None.
Get(d, k) == IF k \in DOMAIN d THEN d[k] ELSE NULL

\* A key is a pair of its kind and the id or name it is about.
_company_keys(company_id, company, operator) ==
  LET name == Or(_norm_name(company), _norm_name(operator))
  IN (IF Truthy(company_id) THEN << <<"company_id", <<company_id>> >> >> ELSE <<>>)
       \o (IF Truthy(name) THEN << <<"company_name", <<name>> >> >> ELSE <<>>)

LineageKey(d) ==
  IF "lineage_id" \in DOMAIN d /\ d.lineage_id # NoId /\ d.lineage_id # NULL
    THEN << <<"lineage", d.lineage_id>> >> ELSE <<>>

_event_keys(payload) ==
  LineageKey(payload)
    \o _company_keys(Get(payload, "company_id"), Get(payload, "company"),
                     Get(payload, "operator"))

_row_keys(row) ==
  LineageKey(row)
    \o _company_keys(Get(row, "company_id"), Get(row, "company"), Get(row, "operator"))

\* A mutation: the policy words match every type.
EventCategoriesAnyPolicy(payload) ==
  LET t == Lower(OrEmpty(Get(payload, "type")))
  IN IF t = "" THEN {}
     ELSE (IF t \in _CATEGORY_A_TYPES THEN {"A"} ELSE {})
            \cup (IF t \in _CATEGORY_B_TYPES THEN {"B"} ELSE {})
            \cup (IF t \in _CATEGORY_C_TYPES THEN {"C"} ELSE {})
            \cup (IF t \in _CATEGORY_D_TYPES THEN {"D"} ELSE {})
            \cup (IF t \in _CATEGORY_E_TYPES THEN {"E"} ELSE {})
            \cup {"F"}

_event_categories(payload) ==
  LET t == Lower(OrEmpty(Get(payload, "type")))
  IN IF t = "" THEN {}
     ELSE (IF t \in _CATEGORY_A_TYPES THEN {"A"} ELSE {})
            \cup (IF t \in _CATEGORY_B_TYPES THEN {"B"} ELSE {})
            \cup (IF t \in _CATEGORY_C_TYPES THEN {"C"} ELSE {})
            \cup (IF t \in _CATEGORY_D_TYPES THEN {"D"} ELSE {})
            \cup (IF t \in _CATEGORY_E_TYPES THEN {"E"} ELSE {})
            \cup (IF t \in _CATEGORY_F_TYPES \/ t \in PolicyWordTypes THEN {"F"} ELSE {})

_event_time(event) == IF event.event_time # NoTime THEN event.event_time ELSE event.ingest_time

Range(f) == {f[i] : i \in DOMAIN f}

\* The signals one event files: one per key and category, none when the
\* event has no time.
EventSignals(event) ==
  IF _event_time(event) = NoTime THEN {}
  ELSE {[key |-> k, dt |-> _event_time(event), category |-> c] :
          k \in Range(_event_keys(event.payload_json)),
          c \in _event_categories(event.payload_json)}

_build_signal_index(events) == UNION {EventSignals(events[i]) : i \in DOMAIN events}

signals_by_key(index, key) == {<<s.dt, s.category>> : s \in {x \in index : x.key = key}}

\* latest_by_key.get(key): None when nothing is filed under the key.
latest_by_key(index, key) ==
  LET times == {s.dt : s \in {x \in index : x.key = key}}
  IN IF times = {} THEN NoTime ELSE CHOOSE t \in times : \A u \in times : u <= t

\* The window open at its start.
_categories_within_window_open(signal_points, window_start, window_end) ==
  {p[2] : p \in {q \in signal_points : window_start < q[1] /\ q[1] <= window_end}}

_categories_within_window(signal_points, window_start, window_end) ==
  {p[2] : p \in {q \in signal_points : window_start <= q[1] /\ q[1] <= window_end}}

\* sorted() of a set of category labels.
SortedCategories(S) ==
  SelectSeq(<<"A", "B", "C", "D", "E", "F">>, LAMBDA c : c \in S)

\* row.get("last_event_time"), None for a row without one.
RowAnchor(row) == IF "last_event_time" \in DOMAIN row THEN row.last_event_time ELSE NoTime

\* The body of the loop of apply_convergence for one row.
ConvergenceRow(row, index, window) ==
  LET keys == _row_keys(row)
      row_anchor == RowAnchor(row)
      candidate_times == {latest_by_key(index, keys[i]) : i \in DOMAIN keys} \ {NoTime}
      times == candidate_times \cup ({row_anchor} \ {NoTime})
      anchor == IF times = {} THEN NoTime ELSE CHOOSE t \in times : \A u \in times : u <= t
      categories == UNION {_categories_within_window(signals_by_key(index, keys[i]),
                                                     anchor - window, anchor) :
                             i \in DOMAIN keys}
  IN IF anchor = NoTime
       THEN [convergence_score |-> 0, convergence_categories |-> <<>>] @@ row
     ELSE [convergence_score |-> Cardinality(categories),
           convergence_categories |-> SortedCategories(categories)] @@ row

apply_convergence(rows, events, window_days) ==
  LET index == _build_signal_index(events)
  IN [i \in DOMAIN rows |-> ConvergenceRow(rows[i], index, Days(window_days))]

\* ---- convergence over event lists ----------------------------------------------
DefaultWindowDays == 30
ShortWindowDays == 10

ConvLineage == <<"L1">>
BasinCompany == "Permian Basin Resources Inc"

ConvEvt(t, type) == Evt(t, ConvLineage, type, NULL, NULL, NULL, NULL, NULL, NULL)

\* Around a row anchored at day 40 with the 30-day window: one hour before
\* the window opens, its first instant, inside, the anchor, and a day later.
ConvTimes == {Days(10) - 1, Days(10), Days(30), Days(40), Days(41)}

ConvEvents ==
  {ConvEvt(t, type) : t \in ConvTimes, type \in {"permit_filed", "insider_buy"}}
    \cup {ConvEvt(Days(40), "spud_reported"), ConvEvt(Days(30), "macro_outlook"),
          [ConvEvt(NoTime, "drill_result") EXCEPT !.ingest_time = NoTime],
          Evt(Days(30), <<"L2">>, "drill_result", NULL, NULL, NULL, NULL, NULL, NULL),
          Evt(Days(30), <<"MD", "financing">>, "financing_closed", NULL, NULL,
              "Permian Basin Resources, Inc.", NULL, NULL, NULL)}

\* tests/test_convergence.py: a permit 40 days and an insider buy 10 days
\* before the anchor.
WindowTest == <<ConvEvt(Days(0), "permit_filed"), ConvEvt(Days(30), "insider_buy")>>

\* tests/test_convergence.py: a Texas lineage with permit and drill result,
\* and insider buy, financing and policy events of the same company filed
\* under other lineages.
CrossSource ==
  <<Evt(Days(0), TxLineage, "permit_filed", NULL, NULL, NULL, NULL, BasinCompany, NULL),
    Evt(Days(1), TxLineage, "drill_result", NULL, NULL, NULL, NULL, BasinCompany, NULL),
    Evt(Days(2), <<"SEC", "PERMIAN_BASIN_RES">>, "insider_buy", NULL, NULL, BasinCompany,
        "PERMIAN_BASIN_RES", NULL, "Dana Morgan"),
    Evt(Days(3), <<"MD", "financing">>, "financing_closed", NULL, NULL, BasinCompany,
        "PERMIAN_BASIN_RES", NULL, NULL),
    Evt(Days(4), <<"MD", "policy">>, "policy_designation", NULL, NULL, BasinCompany,
        NULL, NULL, NULL)>>

ConvEventLists == SeqsUpTo(ConvEvents, MaxEvents) \cup {WindowTest, CrossSource}

RowL1 == [lineage_id |-> ConvLineage, last_event_time |-> Days(40)]
RowUnanchored == [lineage_id |-> ConvLineage]
RowOperator == [lineage_id |-> ConvLineage, last_event_time |-> Days(40),
                operator |-> BasinCompany]

RowLists == {<<RowL1>>, <<RowUnanchored>>, <<RowOperator>>, <<RowUnanchored, RowOperator>>}

SignalPoints == ConvTimes \X {"A", "E"}

InitConv ==
  /\ event_log = {}
  /\ event_seq = 1
  /\ alerts = {}
  /\ alert_seq = 1
  /\ now = 0
  /\ fixture_file = SampleFixture
  /\ last = NoCall
  /\ writers = NoWriters
  /\ fn \in {[op |-> "events", events |-> E] : E \in ConvEventLists}

ApplyConvergence(rows, window_days) ==
  /\ fn.op = "events"
  /\ fn' = [op |-> "apply_convergence", rows |-> rows, events |-> fn.events,
            window_days |-> window_days,
            value |-> apply_convergence(rows, fn.events, window_days)]
  /\ UNCHANGED <<event_log, event_seq, alerts, alert_seq, now, fixture_file, last, writers>>

\* apply_convergence over the chain rows of the same events.
ApplyConvergenceToChain(window_days) ==
  /\ fn.op = "events"
  /\ \E rows \in {compute_chain_scores(fn.events)} :
       fn' = [op |-> "apply_convergence", rows |-> rows, events |-> fn.events,
              window_days |-> window_days,
              value |-> apply_convergence(rows, fn.events, window_days)]
  /\ UNCHANGED <<event_log, event_seq, alerts, alert_seq, now, fixture_file, last, writers>>

\* compute_chain_scores(events, convergence_window_days=...): the function
\* takes the events only, so the call raises TypeError and returns no rows.
ComputeChainScoresWithWindow(window_days) ==
  /\ fn.op = "events"
  /\ fn' = [op |-> "compute_chain_scores_window", events |-> fn.events,
            window_days |-> window_days, raised |-> "TypeError", rows |-> <<>>]
  /\ UNCHANGED <<event_log, event_seq, alerts, alert_seq, now, fixture_file, last, writers>>

CategoriesWithinWindow(signal_points, window_start, window_end) ==
  /\ fn.op = "events"
  /\ fn' = [op |-> "_categories_within_window", signal_points |-> signal_points,
            window_start |-> window_start, window_end |-> window_end,
            value |-> _categories_within_window(signal_points, window_start, window_end)]
  /\ UNCHANGED <<event_log, event_seq, alerts, alert_seq, now, fixture_file, last, writers>>

NextConv ==
  \/ \E rows \in RowLists, w \in {DefaultWindowDays, ShortWindowDays} :
       ApplyConvergence(rows, w)
  \/ \E w \in {DefaultWindowDays, ShortWindowDays} : ApplyConvergenceToChain(w)
  \/ ComputeChainScoresWithWindow(DefaultWindowDays)
  \/ \E P \in {Q \in SUBSET SignalPoints : Cardinality(Q) <= 2} :
       CategoriesWithinWindow(P, Days(10), Days(40))

SpecConv == InitConv /\ [][NextConv]_vars

\* The events that file a signal under one of a row's keys.
LinkedSignals(row, events) ==
  {j \in DOMAIN events :
     /\ _event_time(events[j]) # NoTime
     /\ _event_categories(events[j].payload_json) # {}
     /\ Range(_event_keys(events[j].payload_json)) \cap Range(_row_keys(row)) # {}}

\* The anchor of a row: the later of its last_event_time and the latest
\* signal filed under its keys; NoTime when it has neither.
AnchorOf(row, events) ==
  LET times == ({_event_time(events[j]) : j \in LinkedSignals(row, events)}
                  \cup {RowAnchor(row)}) \ {NoTime}
  IN IF times = {} THEN NoTime ELSE CHOOSE t \in times : \A u \in times : u <= t

\* C18: in apply_convergence a signal filed under one of the row's keys
\* contributes its category if and only if anchor - window <= its time <=
\* anchor: one strictly earlier than anchor - window contributes nothing, one
\* exactly at anchor - window is included, one later than the window's end is
\* excluded.
C18_WindowInclusive ==
  /\ fn.op = "apply_convergence"
       => \A i \in DOMAIN fn.rows :
            LET row == fn.rows[i]
                a == AnchorOf(row, fn.events)
                w == Days(fn.window_days)
                got == Range(fn.value[i].convergence_categories)
            IN /\ a # NoTime
                    => \A c \in Categories :
                         c \in got <=>
                           \E j \in LinkedSignals(row, fn.events) :
                              /\ c \in _event_categories(fn.events[j].payload_json)
                              /\ a - w <= _event_time(fn.events[j])
                              /\ _event_time(fn.events[j]) <= a
               /\ a = NoTime => got = {}
               /\ fn.value[i].convergence_score = Cardinality(got)
  /\ fn.op = "_categories_within_window"
       => \A c \in Categories :
            c \in fn.value <=>
              \E p \in fn.signal_points :
                 /\ p[2] = c
                 /\ fn.window_start <= p[1]
                 /\ p[1] <= fn.window_end

\* A permit one hour before the window opens and an insider buy at its first
\* instant, for a row anchored at day 40: only E is counted.
C18_Witness ==
  /\ fn.op = "apply_convergence"
  /\ fn.rows = <<RowL1>>
  /\ fn.window_days = DefaultWindowDays
  /\ fn.events = <<ConvEvt(Days(10) - 1, "permit_filed"), ConvEvt(Days(10), "insider_buy")>>
  /\ fn.value[1].convergence_categories = <<"E">>
  /\ fn.value[1].convergence_score = 1

\* C19: compute_chain_scores(events, convergence_window_days=30) returns chain
\* rows carrying convergence_score and convergence_categories, and the Texas
\* row of a lineage whose company has insider buy, financing and policy events
\* under other lineages within 30 days has convergence_score >= 5 with
\* categories including A, B, D, E and F.
C19_ChainRowsCarryConvergence ==
  fn.op = "compute_chain_scores_window"
    => /\ fn.raised = NULL
       /\ \A i \in DOMAIN fn.rows :
            {"convergence_score", "convergence_categories"} \subseteq DOMAIN fn.rows[i]
       /\ fn.events = CrossSource
            => \E i \in DOMAIN fn.rows :
                 /\ fn.rows[i].lineage_id = TxLineage
                 /\ fn.rows[i].convergence_score >= 5
                 /\ {"A", "B", "D", "E", "F"} \subseteq Range(fn.rows[i].convergence_categories)

\* ---- entity resolution over names and universes ---------------------------------
\* Free-text mentions: absent, empty, blank, a canonical name, an alias, an
\* alias with stray whitespace, the other company, and an unknown one.
Mentions ==
  {NULL, "", " ", "Permian Resources", "Permian Resources Corp",
   " Permian  Resources Corp ", "Ucore Rare Metals Inc.", "Totally Unknown Corp"}

\* The two-company universe, the same with one company only, and one with
\* no company.
Universes == {Universe, <<Universe[1]>>, <<>>}

InitResolve ==
  /\ event_log = {}
  /\ event_seq = 1
  /\ alerts = {}
  /\ alert_seq = 1
  /\ now = 0
  /\ fixture_file = SampleFixture
  /\ last = NoCall
  /\ writers = NoWriters
  /\ fn \in {[op |-> "mentions", name |-> n, operator |-> o, universe |-> u] :
               n \in Mentions, o \in Mentions, u \in Universes}

ResolveCompany ==
  /\ fn.op = "mentions"
  /\ fn' = [op |-> "resolve_company", name |-> fn.name, operator |-> fn.operator,
            universe |-> fn.universe, calls |-> 1,
            value |-> resolve_company(fn.name, fn.operator, fn.universe),
            first_value |-> resolve_company(fn.name, fn.operator, fn.universe)]
  /\ UNCHANGED <<event_log, event_seq, alerts, alert_seq, now, fixture_file, last, writers>>

\* The same call once more, at a later time.
ResolveCompanyAgain ==
  /\ fn.op = "resolve_company"
  /\ fn.calls = 1
  /\ now + TickHours <= MaxNow
  /\ now' = now + TickHours
  /\ fn' = [fn EXCEPT !.calls = 2,
                      !.value = resolve_company(fn.name, fn.operator, fn.universe)]
  /\ UNCHANGED <<event_log, event_seq, alerts, alert_seq, fixture_file, last, writers>>

NextResolve ==
  \/ ResolveCompany
  \/ ResolveCompanyAgain

SpecResolve == InitResolve /\ [][NextResolve]_vars

\* The companies of a universe one of whose names or aliases a mention
\* normalises to; none for an absent or blank mention.
CompaniesNamed(raw, uni) ==
  IF raw = NULL \/ clean_str(raw) = NULL THEN {}
  ELSE {i \in DOMAIN uni : _norm(raw) \in NameKeys(uni[i])}

\* C20: resolve_company tries name and then operator and returns the company
\* of the first one that normalises to a company name or alias (method alias,
\* confidence 0.95); otherwise the only company of a one-company universe
\* (method fallback, confidence 0.25); otherwise no company (method none,
\* confidence 0.0); a repeated call with the same inputs returns the same.
C20_ResolveCompany ==
  fn.op = "resolve_company"
    => LET v == fn.value
           uni == fn.universe
           byName == CompaniesNamed(fn.name, uni)
           byOperator == CompaniesNamed(fn.operator, uni)
           hit == IF byName # {} THEN byName ELSE byOperator
       IN /\ hit # {}
               => /\ v.method = "alias"
                  /\ v.confidence = 95
                  /\ v.company_id \in {uni[i].company_id : i \in hit}
          /\ (hit = {} /\ Len(uni) = 1)
               => /\ v.method = "fallback"
                  /\ v.confidence = 25
                  /\ v.company_id = uni[1].company_id
          /\ (hit = {} /\ Len(uni) # 1)
               => /\ v.method = "none"
                  /\ v.confidence = 0
                  /\ v.company_id = NULL
          /\ v = fn.first_value

\* A name of one company and an operator of the other resolved to the
\* name's company.
C20_Witness ==
  /\ fn.op = "resolve_company"
  /\ fn.name = "Ucore Rare Metals Inc."
  /\ fn.operator = " Permian  Resources Corp "
  /\ fn.universe = Universe
  /\ fn.value.company_id = "UCORE_RARE_METALS"
  /\ fn.value.method = "alias"

\* ---- adapters/sec_edgar.py: the HTTP fetch substrate ------------------------------
\* Times are in tenths of a second on the monotonic clock.
DEFAULT_REQUEST_DELAY_S == 2
DEFAULT_MAX_RETRIES == 3
DEFAULT_BACKOFF_S == 10

\* Any status is retried.
RetryAnyStatus == {404, 429, 500, 502, 503, 504}

_RETRYABLE_HTTP_STATUS == {429, 500, 502, 503, 504}

RECURSIVE Pow2(_)
Pow2(k) == IF k = 0 THEN 1 ELSE 2 * Pow2(k - 1)

\* What one request can meet upstream: a good body, a body that is not JSON,
\* a body that is not UTF-8, an HTTP error status, a URLError or TimeoutError
\* from urlopen, and a connection reset while the response is read.
Resp(kind, code) == [kind |-> kind, code |-> code]

Responses ==
  {Resp("ok", 200), Resp("invalid_json_body", 200), Resp("non_utf8_body", 200),
   Resp("HTTPError", 404), Resp("HTTPError", 503),
   Resp("URLError", 0), Resp("TimeoutError", 0), Resp("ConnectionResetError", 0)}

\* How long a request takes.
Durations == {0, 4}

EmptyValue(fetch) ==
  IF fetch = "json" THEN [type |-> "dict", empty |-> TRUE, url |-> NULL]
  ELSE [type |-> "str", empty |-> TRUE, url |-> NULL]

Body(fetch, url) ==
  IF fetch = "json" THEN [type |-> "dict", empty |-> FALSE, url |-> url]
  ELSE [type |-> "str", empty |-> FALSE, url |-> url]

\* The try/except of one attempt of _http_get_json_with_retry (fetch "json")
\* and _http_get_text_with_retry (fetch "text"): return a value, sleep and go
\* round again, or let the exception through.
HandleResponse(fetch, url, resp, attempt, max_retries) ==
  LET retry == IF attempt < max_retries
                 THEN [do |-> "retry", value |-> EmptyValue(fetch), error |-> NULL]
                 ELSE [do |-> "return", value |-> EmptyValue(fetch), error |-> NULL]
      return_body == [do |-> "return", value |-> Body(fetch, url), error |-> NULL]
  IN CASE resp.kind = "ok" -> return_body
       [] resp.kind = "invalid_json_body" -> IF fetch = "json" THEN retry ELSE return_body
       [] resp.kind = "non_utf8_body" ->
            IF fetch = "json"
              THEN [do |-> "raise", value |-> EmptyValue(fetch), error |-> "UnicodeDecodeError"]
              ELSE return_body
       [] resp.kind = "HTTPError" ->
            IF resp.code \in _RETRYABLE_HTTP_STATUS THEN retry
            ELSE [do |-> "return", value |-> EmptyValue(fetch), error |-> NULL]
       [] resp.kind \in {"URLError", "TimeoutError"} -> retry
       [] OTHER -> [do |-> "raise", value |-> EmptyValue(fetch), error |-> resp.kind]

\* The request goes out at once, whatever the time since the last one.
NoPacing(clock, last_ts, request_delay_s) == clock

\* The pacing before a request: the clock after the sleep, which is the new
\* _LAST_HTTP_REQUEST_TS.
PaceRequest(clock, last_ts, request_delay_s) ==
  LET elapsed == clock - last_ts
  IN IF elapsed < request_delay_s THEN clock + (request_delay_s - elapsed) ELSE clock

Backoff(backoff_base_s, attempt) == backoff_base_s * Pow2(attempt)

\* _normalize_ticker_symbol and str(cik).strip().zfill(10) on the rows of the
\* ticker file.
TickerRows == {[ticker |-> "pr", cik_str |-> "1024"], [ticker |-> NULL, cik_str |-> "77"]}

_normalize_ticker_symbol(v) ==
  CASE v = "pr" -> "PR"
    [] OTHER -> v

Zfill10(cik) ==
  CASE cik = "1024" -> "0000001024"
    [] OTHER -> cik

TickerToCik(payload) ==
  IF payload.empty THEN {}
  ELSE {<<_normalize_ticker_symbol(r.ticker), Zfill10(r.cik_str)>> :
          r \in {x \in TickerRows : _normalize_ticker_symbol(x.ticker) # NULL}}

\* ---- a run of the SEC adapter over the fetch substrate ---------------------------
NumCompanies == 2
MaxLoads == 2
ShortRetries == 1
SlowDelay == 3
FastBackoff == 1

\* The ticker map loaded with the defaults, and an adapter run with a short
\* budget and a backoff shorter than the pacing.
HttpRuns ==
  {[driver |-> "load_twice",
    params |-> [max_retries |-> DEFAULT_MAX_RETRIES,
                request_delay_s |-> DEFAULT_REQUEST_DELAY_S,
                backoff_base_s |-> DEFAULT_BACKOFF_S]],
   [driver |-> "iter_live_events",
    params |-> [max_retries |-> ShortRetries, request_delay_s |-> SlowDelay,
                backoff_base_s |-> FastBackoff]]}

NoResp == Resp("none", 0)
NoValue == [type |-> "none", empty |-> TRUE, url |-> NULL]
NoHttpCall ==
  [fetch |-> "none", url |-> NULL, attempt |-> 0, requests |-> 0, retry_cause |-> NoResp,
   slept |-> 0, paced |-> 0]
NewCall(fetch, url) == [NoHttpCall EXCEPT !.fetch = fetch, !.url = url]

\* iter_live_events runs the ticker map, then each company's submissions and
\* filing; the other driver loads the ticker map MaxLoads times with one
\* run_cache.
InitHttp ==
  /\ event_log = {}
  /\ event_seq = 1
  /\ alerts = {}
  /\ alert_seq = 1
  /\ now = 0
  /\ fixture_file = SampleFixture
  /\ last = NoCall
  /\ writers = NoWriters
  /\ fn \in {[op |-> "http", driver |-> r.driver, params |-> r.params, clock |-> c,
              last_ts |-> 0,
              stamped |-> FALSE, pc |-> "load", company |-> 0, fetched |-> {},
              call |-> NoHttpCall, ret |-> NoValue, error |-> NULL,
              run_cache |-> [has |-> FALSE, ticker_to_cik |-> {}], loads |-> <<>>] :
               r \in HttpRuns, c \in {0, 5}}

\* Where the caller goes once _load_ticker_to_cik_map has returned.
AfterLoad(f, map, loads) ==
  IF f.driver = "iter_live_events"
    THEN IF map = {} THEN [f EXCEPT !.pc = "done", !.loads = loads]
         ELSE [f EXCEPT !.pc = "company", !.company = 1, !.loads = loads]
  ELSE [f EXCEPT !.pc = IF Len(loads) < MaxLoads THEN "load" ELSE "done", !.loads = loads]

NextCompany(f) ==
  IF f.company + 1 > NumCompanies THEN [f EXCEPT !.pc = "done"]
  ELSE [f EXCEPT !.pc = "company", !.company = f.company + 1]

\* What the caller does with the value a fetch returned.
Continue(f, v) ==
  CASE f.call.url = "ticker_map" ->
         LET map == TickerToCik(v)
         IN AfterLoad([f EXCEPT !.run_cache = [has |-> TRUE, ticker_to_cik |-> map]], map,
                      Append(f.loads, [map |-> map, requests |-> f.call.requests]))
    [] f.call.url = "submissions" ->
         IF v.empty THEN NextCompany(f) ELSE [f EXCEPT !.pc = "filing"]
    [] f.call.url = "filing" ->
         IF v.empty THEN [f EXCEPT !.pc = "filing_txt"] ELSE NextCompany(f)
    [] OTHER -> NextCompany(f)

\* The cache is never consulted.
CacheNeverHit(run_cache) == FALSE

\* run_cache holds a ticker map.
CacheHit(run_cache) == run_cache.has

\* _load_ticker_to_cik_map up to its fetch: a cached map is returned without
\* a request.
LoadTickerToCikMap ==
  /\ fn.op = "http"
  /\ fn.pc = "load"
  /\ fn' = IF CacheHit(fn.run_cache)
             THEN AfterLoad(fn, fn.run_cache.ticker_to_cik,
                            Append(fn.loads, [map |-> fn.run_cache.ticker_to_cik,
                                              requests |-> 0]))
           ELSE [fn EXCEPT !.pc = "fetch", !.call = NewCall("json", "ticker_map")]
  /\ UNCHANGED <<event_log, event_seq, alerts, alert_seq, now, fixture_file, last, writers>>

FetchSubmissions ==
  /\ fn.op = "http"
  /\ fn.pc = "company"
  /\ fn' = [fn EXCEPT !.pc = "fetch", !.call = NewCall("json", "submissions"),
                      !.fetched = @ \cup {fn.company}]
  /\ UNCHANGED <<event_log, event_seq, alerts, alert_seq, now, fixture_file, last, writers>>

FetchFiling ==
  /\ fn.op = "http"
  /\ fn.pc \in {"filing", "filing_txt"}
  /\ fn' = [fn EXCEPT !.pc = "fetch", !.call = NewCall("text", fn.pc)]
  /\ UNCHANGED <<event_log, event_seq, alerts, alert_seq, now, fixture_file, last, writers>>

\* One round of the loop of _http_get_json_with_retry / _http_get_text_with_retry:
\* pace, stamp, request, and then return, back off or raise.
Attempt(resp, duration) ==
  /\ fn.op = "http"
  /\ fn.pc = "fetch"
  /\ LET q == fn.params
         start == PaceRequest(fn.clock, fn.last_ts, q.request_delay_s)
         h == HandleResponse(fn.call.fetch, fn.call.url, resp, fn.call.attempt, q.max_retries)
         f == [fn EXCEPT !.last_ts = start, !.stamped = TRUE,
                         !.clock = start + duration, !.call.requests = @ + 1,
                         !.call.paced = start - fn.clock]
     IN fn' = CASE h.do = "retry" ->
                     [f EXCEPT !.clock = @ + Backoff(q.backoff_base_s, fn.call.attempt),
                               !.call.attempt = @ + 1, !.call.retry_cause = resp,
                               !.call.slept = Backoff(q.backoff_base_s, fn.call.attempt)]
                [] h.do = "raise" -> [f EXCEPT !.pc = "raised", !.error = h.error]
                [] OTHER -> Continue([f EXCEPT !.ret = h.value], h.value)
  /\ UNCHANGED <<event_log, event_seq, alerts, alert_seq, now, fixture_file, last, writers>>

NextHttp ==
  \/ LoadTickerToCikMap
  \/ FetchSubmissions
  \/ FetchFiling
  \/ \E resp \in Responses, duration \in Durations : Attempt(resp, duration)

\* The process keeps running: a sleep ends and a request returns or times out.
SpecHttp == InitHttp /\ [][NextHttp]_vars /\ WF_vars(NextHttp)

\* What a fetch may go round again after.
RetryCause(fetch, resp) ==
  \/ resp.kind = "HTTPError" /\ resp.code \in {429, 500, 502, 503, 504}
  \/ resp.kind \in {"URLError", "TimeoutError"}
  \/ fetch = "json" /\ resp.kind = "invalid_json_body"

FetchWithinBudget ==
  fn.op = "http"
    => /\ fn.call.requests <= fn.params.max_retries + 1
       /\ fn.pc = "fetch" => fn.call.requests = fn.call.attempt
       /\ fn.call.attempt > 0
            => /\ RetryCause(fn.call.fetch, fn.call.retry_cause)
               /\ fn.call.slept = fn.params.backoff_base_s * Pow2(fn.call.attempt - 1)

\* C21: a _http_get_json_with_retry or _http_get_text_with_retry call always
\* ends, after at most max_retries + 1 requests; it goes round again only
\* after a status in {429, 500, 502, 503, 504}, a transport or timeout error
\* or (JSON only) a JSON decode error, and sleeps backoff_base_s * 2^k before
\* re-attempt k + 1.
C21_FetchTerminates ==
  /\ []FetchWithinBudget
  /\ (fn.pc = "fetch") ~> (fn.pc # "fetch")

\* A fetch with the default budget has given up after four requests, the
\* last backoff being 4.0 s.
C21_Witness ==
  /\ fn.op = "http"
  /\ fn.pc # "fetch"
  /\ fn.call.requests = DEFAULT_MAX_RETRIES + 1
  /\ fn.call.slept = 4 * DEFAULT_BACKOFF_S
  /\ fn.ret.empty

\* C22: between the starts of two consecutive requests of the process, JSON
\* or text, first attempt or retry, at least request_delay_s elapses, and
\* _LAST_HTTP_REQUEST_TS never decreases.
C22_PacedRequests ==
  [][fn.op = "http"
       => /\ fn'.last_ts >= fn.last_ts
          /\ fn.pc # "fetch" => fn'.last_ts = fn.last_ts
          /\ (fn.pc = "fetch" /\ fn.stamped)
               => fn'.last_ts - fn.last_ts >= fn.params.request_delay_s]_vars

\* The retry of a text fetch, its backoff shorter than the delay, was held
\* back for the rest of the delay.
C22_Witness ==
  /\ fn.op = "http"
  /\ fn.call.fetch = "text"
  /\ fn.call.requests = 2
  /\ fn.call.paced = SlowDelay - FastBackoff

\* C23: a fetch that meets a non-retryable HTTP error or runs out of retries
\* returns an empty dict (JSON) or an empty string (text); no upstream failure
\* surfaces as an error, and the adapter goes on to the remaining companies.
C23_NoErrorSurfaces ==
  fn.op = "http"
    => /\ fn.pc # "raised"
       /\ fn.error = NULL
       /\ fn.ret.type \in {"none", "dict", "str"}
       /\ (fn.driver = "iter_live_events" /\ fn.pc = "done" /\ fn.run_cache.ticker_to_cik # {})
            => fn.fetched = 1..NumCompanies

\* C24: with one run_cache, after a successful _load_ticker_to_cik_map every
\* later call returns the same map without a request.
C24_TickerMapFetchedOnce ==
  (fn.op = "http" /\ fn.loads # <<>> /\ fn.loads[1].map # {})
    => \A n \in 2..Len(fn.loads) :
         /\ fn.loads[n].map = fn.loads[1].map
         /\ fn.loads[n].requests = 0

\* The map was fetched at the second attempt and then loaded again.
C24_Witness ==
  /\ fn.op = "http"
  /\ Len(fn.loads) = 2
  /\ fn.loads[1].map = {<<"PR", "0000001024">>}
  /\ fn.loads[1].requests = 2
  /\ fn.loads[2].requests = 0

\* ---- JSON-lines readers of every ingestion path -----------------------------
\* The five adapters read through iter_fixture_events; the Alaska permits and
\* wells loaders and the demo pipeline decode each non-blank line directly.
AlaskaLoaders == {"alaska_permits", "alaska_wells"}
Readers == Adapters \cup AlaskaLoaders \cup {"demo_pipeline"}

AkPermitLine == Obj("ak_001", 2, Payload("permit_filed", NULL, "AK-1", NULL, NULL, NULL, NULL))
ReaderLines == {PermitLine, AkPermitLine, WellLine, BlankLine, UndecodableLine}

Undecodable(lines) == {i \in DOMAIN lines : lines[i].kind = "undecodable"}

FirstUndecodable(lines) ==
  CHOOSE i \in Undecodable(lines) : \A j \in Undecodable(lines) : i <= j

\* The payload type an Alaska loader keeps.
WantedType(loader) == IF loader = "alaska_permits" THEN "permit_filed" ELSE "well_record"

\* _load_fallback_jsonl: blank lines are skipped; json.loads is not guarded, so
\* an undecodable line raises JSONDecodeError out of the loader and no payload
\* list is returned; otherwise the payloads of the wanted type, in file order.
_load_fallback_jsonl(loader, lines) ==
  IF Undecodable(lines) # {}
    THEN [raised |-> "JSONDecodeError", records |-> <<>>]
    ELSE [raised |-> NULL,
          records |-> SelectSeq(lines, LAMBDA line :
                        /\ line.kind = "object"
                        /\ line.payload_json.type = WantedType(loader))]

\* demo_pipeline.load_jsonl is a generator: the rows before the first undecodable
\* line are yielded (and ingested by ingest_and_alert), then json.loads raises.
load_jsonl(lines) ==
  IF Undecodable(lines) # {}
    THEN [raised |-> "JSONDecodeError",
          records |-> iter_fixture_events(SubSeq(lines, 1, FirstUndecodable(lines) - 1))]
    ELSE [raised |-> NULL, records |-> iter_fixture_events(lines)]

\* What a reader hands on for ingestion, and whether it raised.
ReadLines(reader, lines) ==
  IF reader \in AlaskaLoaders THEN _load_fallback_jsonl(reader, lines)
  ELSE IF reader = "demo_pipeline" THEN load_jsonl(lines)
  ELSE [raised |-> NULL, records |-> iter_fixture_events(lines)]

\* The records a reader processes when every bad line is skipped.
SkippingBadLines(reader, lines) ==
  SelectSeq(lines, LAMBDA line :
    /\ line.kind = "object"
    /\ reader \in AlaskaLoaders => line.payload_json.type = WantedType(reader))

InitRead ==
  /\ event_log = {}
  /\ event_seq = 1
  /\ alerts = {}
  /\ alert_seq = 1
  /\ now = 0
  /\ fixture_file = SampleFixture
  /\ last = NoCall
  /\ writers = NoWriters
  /\ fn \in {[op |-> "fixture", reader |-> r, lines |-> ls] :
               r \in Readers, ls \in SeqsUpTo(ReaderLines, MaxLines)}

ReadFixture ==
  /\ fn.op = "fixture"
  /\ \E r \in {ReadLines(fn.reader, fn.lines)} :
       fn' = [op |-> "read", reader |-> fn.reader, lines |-> fn.lines,
              raised |-> r.raised, records |-> r.records]
  /\ UNCHANGED <<event_log, event_seq, alerts, alert_seq, now, fixture_file, last, writers>>

NextRead == ReadFixture

SpecRead == InitRead /\ [][NextRead]_vars

\* C25: whichever ingestion path reads a JSON-lines fixture, no error is raised
\* and every decodable line the path accepts is processed, bad lines or not.
C25_BadLineNeverAborts ==
  fn.op = "read" =>
    /\ fn.raised = NULL
    /\ fn.records = SkippingBadLines(fn.reader, fn.lines)

\* ---- hashing.py: content hash of a JSON payload ------------------------------
\* A JSON value is a tagged record: a number n, an array or an object. The
\* members v of an object are <<key, value>> pairs in insertion order, keys
\* distinct, as a Python dict keeps them; the items of an array are held the
\* same way under the empty key.
MaxItems == 2

Num(n) == [t |-> "num", n |-> n, v |-> <<>>]
Arr(items) == [t |-> "arr", n |-> 0, v |-> [i \in DOMAIN items |-> <<"", items[i]>>]]
Items(arr) == [i \in DOMAIN arr.v |-> arr.v[i][2]]
ObjOf(members) == [t |-> "obj", n |-> 0, v |-> members]

\* The key names, in the order sorted() gives them.
KeyOrder == <<"a", "b">>
KeyNames == {KeyOrder[i] : i \in DOMAIN KeyOrder}

NumStr(n) == CASE n = 1 -> "1" [] n = 2 -> "2" [] OTHER -> "0"

\* A mutation: the members stay in insertion order.
InsertionOrder(members) == members

RECURSIVE SortFrom(_, _)
SortFrom(members, i) ==
  IF i > Len(KeyOrder) THEN <<>>
  ELSE SelectSeq(members, LAMBDA m : m[1] = KeyOrder[i]) \o SortFrom(members, i + 1)

\* {k: ... for k in sorted(obj.keys())}
SortByKey(members) == SortFrom(members, 1)

RECURSIVE _normalize(_)
_normalize(obj) ==
  CASE obj.t = "obj" ->
         ObjOf(SortByKey([i \in DOMAIN obj.v |-> <<obj.v[i][1], _normalize(obj.v[i][2])>>]))
    [] obj.t = "arr" -> Arr([i \in DOMAIN obj.v |-> _normalize(Items(obj)[i])])
    [] OTHER -> obj

RECURSIVE Join(_, _)
Join(parts, i) ==
  IF i > Len(parts) THEN <<>>
  ELSE (IF i > 1 THEN <<",">> ELSE <<>>) \o parts[i] \o Join(parts, i + 1)

\* json.dumps(..., separators=(",", ":")): the text as a sequence of tokens.
RECURSIVE json_dumps(_)
json_dumps(obj) ==
  CASE obj.t = "obj" ->
         <<"{">> \o Join([i \in DOMAIN obj.v |->
                           <<obj.v[i][1], ":">> \o json_dumps(obj.v[i][2])], 1) \o <<"}">>
    [] obj.t = "arr" ->
         <<"[">> \o Join([i \in DOMAIN obj.v |-> json_dumps(Items(obj)[i])], 1) \o <<"]">>
    [] OTHER -> <<NumStr(obj.n)>>

stable_json_dumps(payload) == json_dumps(_normalize(payload))

content_hash(payload_json) == sha256_hex(stable_json_dumps(payload_json))

\* Python's == on JSON values: dicts compare by content, lists by position.
RECURSIVE PyEq(_, _)
PyEq(x, y) ==
  /\ x.t = y.t
  /\ CASE x.t = "obj" ->
            /\ {m[1] : m \in Range(x.v)} = {m[1] : m \in Range(y.v)}
            /\ \A i \in DOMAIN x.v : \A j \in DOMAIN y.v :
                 x.v[i][1] = y.v[j][1] => PyEq(x.v[i][2], y.v[j][2])
       [] x.t = "arr" ->
            /\ Len(x.v) = Len(y.v)
            /\ \A i \in DOMAIN x.v : PyEq(Items(x)[i], Items(y)[i])
       [] OTHER -> x.n = y.n

Permuted(s) == {[i \in DOMAIN s |-> s[f[i]]] : f \in Permutations(DOMAIN s)}

\* The sequences that take their i-th element from alts[i].
Pointwise(alts) ==
  {s \in [DOMAIN alts -> UNION {alts[i] : i \in DOMAIN alts}] :
     \A i \in DOMAIN alts : s[i] \in alts[i]}

\* Every value that is obj with object keys reordered at any nesting level.
RECURSIVE KeyReorderings(_)
KeyReorderings(obj) ==
  CASE obj.t = "num" -> {obj}
    [] obj.t = "arr" ->
         {Arr(s) : s \in Pointwise([i \in DOMAIN obj.v |-> KeyReorderings(Items(obj)[i])])}
    [] OTHER ->
         UNION {{ObjOf(s) : s \in Pointwise([i \in DOMAIN mem |->
                                    {<<mem[i][1], w>> : w \in KeyReorderings(mem[i][2])}])} :
                mem \in Permuted(obj.v)}

\* Every value that is obj with one of its arrays reordered to a different
\* sequence.
RECURSIVE ArrayReorderings(_)
ArrayReorderings(obj) ==
  CASE obj.t = "num" -> {}
    [] obj.t = "arr" ->
         {Arr(s) : s \in {q \in Permuted(Items(obj)) : ~PyEq(Arr(q), obj)}}
         \cup UNION {{Arr([Items(obj) EXCEPT ![i] = w]) : w \in ArrayReorderings(Items(obj)[i])} :
                     i \in DOMAIN obj.v}
    [] OTHER ->
         UNION {{ObjOf([obj.v EXCEPT ![i] = <<obj.v[i][1], w>>]) :
                   w \in ArrayReorderings(obj.v[i][2])} : i \in DOMAIN obj.v}

Scalars == {Num(1), Num(2)}
Members(values) ==
  {<<<<k, x>>>> : k \in KeyNames, x \in values}
  \cup {<<<<k[1], x>>, <<k[2], y>>>> : k \in Permuted(KeyOrder), x \in values, y \in values}
InnerObjects == {ObjOf(ms) : ms \in Members(Scalars)}
ArrayItems == {Num(2)} \cup {ObjOf(<<<<"a", Num(1)>>, <<"b", Num(2)>>>>),
                            ObjOf(<<<<"b", Num(2)>>, <<"a", Num(1)>>>>)}
Arrays == {Arr(s) : s \in SeqsUpTo(ArrayItems, MaxItems)}
JsonPayloads == {ObjOf(ms) : ms \in Members(Scalars \cup InnerObjects \cup Arrays)}

InitHash ==
  /\ event_log = {}
  /\ event_seq = 1
  /\ alerts = {}
  /\ alert_seq = 1
  /\ now = 0
  /\ fixture_file = SampleFixture
  /\ last = NoCall
  /\ writers = NoWriters
  /\ fn \in {[op |-> "payload", p |-> p, h |-> content_hash(p),
              keys_done |-> FALSE, keys_p |-> p, keys_h |-> content_hash(p),
              array_done |-> FALSE, array_p |-> p, array_h |-> content_hash(p)] :
               p \in JsonPayloads}

\* content_hash of the payload with its object keys reordered.
HashKeysReordered ==
  /\ ~fn.keys_done
  /\ \E q \in KeyReorderings(fn.p) :
       fn' = [fn EXCEPT !.op = "content_hash", !.keys_done = TRUE,
                        !.keys_p = q, !.keys_h = content_hash(q)]
  /\ UNCHANGED <<event_log, event_seq, alerts, alert_seq, now, fixture_file, last, writers>>

\* content_hash of the payload with one array reordered.
HashArrayReordered ==
  /\ ~fn.array_done
  /\ \E q \in ArrayReorderings(fn.p) :
       fn' = [fn EXCEPT !.op = "content_hash", !.array_done = TRUE,
                        !.array_p = q, !.array_h = content_hash(q)]
  /\ UNCHANGED <<event_log, event_seq, alerts, alert_seq, now, fixture_file, last, writers>>

NextHash == HashKeysReordered \/ HashArrayReordered

SpecHash == InitHash /\ [][NextHash]_vars

\* C26: the content hash of a payload is unchanged by reordering object keys at
\* any nesting level, and changed by reordering an array to a different sequence.
C26_ContentHashKeyOrderFree ==
  /\ fn.keys_done => fn.keys_h = fn.h
  /\ fn.array_done => fn.array_h # fn.h

\* C26 witness: a payload whose top-level and nested keys were both reordered
\* hashes as before, and the same payload with its array reversed does not.
C26_Witness ==
  /\ fn.keys_done /\ fn.array_done
  /\ fn.p = ObjOf(<<<<"a", Num(1)>>,
                    <<"b", Arr(<<Num(2), ObjOf(<<<<"a", Num(1)>>, <<"b", Num(2)>>>>)>>)>>>>)
  /\ fn.keys_p = ObjOf(<<<<"b", Arr(<<Num(2), ObjOf(<<<<"b", Num(2)>>, <<"a", Num(1)>>>>)>>)>>,
                         <<"a", Num(1)>>>>)
  /\ fn.keys_h = fn.h
  /\ fn.array_p = ObjOf(<<<<"a", Num(1)>>,
                          <<"b", Arr(<<ObjOf(<<<<"a", Num(1)>>, <<"b", Num(2)>>>>), Num(2)>>)>>>>)
  /\ fn.array_h # fn.h

\* ---- context carried into the chain row --------------------------------------
\* An event of lineage lid on day d whose payload holds the given fields.
CarryEvt(d, lid, fields) ==
  [payload_json |->
     fields @@ [Payload("permit_filed", NULL, NULL, NULL, NULL, NULL, NULL)
                  EXCEPT !.lineage_id = lid],
   event_time |-> Days(d), ingest_time |-> Days(d)]

CarryEvents ==
  {CarryEvt(1, TxLineage, [region |-> "Texas", operator |-> "Op A", permit_id |-> "P1",
                           field |-> "Spraberry", county |-> "Midland"]),
   CarryEvt(2, TxLineage, [type |-> "production_reported", region |-> "Texas",
                           operator |-> "Op B", field |-> "Wolfcamp", ip_boed |-> 450]),
   CarryEvt(3, TxLineage, [type |-> "production_reported", region |-> "Texas",
                           county |-> "Martin", ip_boed |-> 900]),
   CarryEvt(4, TxLineage, [type |-> "completion_reported", permit_id |-> "P2",
                           ip_boed |-> BadIp]),
   CarryEvt(5, TxLineage, [region |-> "Texas", commodity |-> "oil",
                           company |-> "Permian Resources", project |-> "Block 7"]),
   CarryEvt(1, ReeLineage, [type |-> "resource_estimate", commodity |-> "REE",
                            company |-> "Frontier Rare Earths Ltd", project |-> "Lofdal",
                            tickers |-> <<"FRE">>]),
   CarryEvt(2, ReeLineage, [type |-> "feasibility_study", commodity |-> "uranium",
                            company |-> "Frontier Uranium", project |-> "Lofdal 2",
                            tickers |-> <<"FRU">>, company_id |-> "frontier"]),
   CarryEvt(3, ReeLineage, [type |-> "claims_staked", commodity |-> "REE",
                            region |-> "Namibia"]),
   CarryEvt(1, SecLineage, [type |-> "insider_buy", region |-> "US",
                            company |-> "Permian Resources",
                            company_id |-> "PERMIAN_RESOURCES", tickers |-> <<"PR">>]),
   CarryEvt(1, NoId, [operator |-> "Op C"])}

InitCarry ==
  /\ event_log = {}
  /\ event_seq = 1
  /\ alerts = {}
  /\ alert_seq = 1
  /\ now = 0
  /\ fixture_file = SampleFixture
  /\ last = NoCall
  /\ writers = NoWriters
  /\ fn \in {[op |-> "events", events |-> es] : es \in SeqsUpTo(CarryEvents, MaxEvents)}

\* compute_chain_scores over events that differ in their context fields.
CarryContext ==
  /\ fn.op = "events"
  /\ fn' = [op |-> "compute_chain_scores", events |-> fn.events,
            rows |-> compute_chain_scores(fn.events)]
  /\ UNCHANGED <<event_log, event_seq, alerts, alert_seq, now, fixture_file, last, writers>>

NextCarry == CarryContext

SpecCarry == InitCarry /\ [][NextCarry]_vars

ContextFields ==
  {"operator", "region", "permit_id", "field", "county", "company", "project",
   "commodity", "company_id"}

\* The first value of payload field f, other than none, among the events of lid.
FirstNonNull(events, lid, f, none) ==
  LET idx == {i \in EventsOf(events, lid) : events[i].payload_json[f] # none}
  IN IF idx = {} THEN none
     ELSE events[CHOOSE i \in idx : \A j \in idx : i <= j].payload_json[f]

\* The largest numeric ip_boed among the events of lid.
MaxNumericIp(events, lid) ==
  LET ips == {events[i].payload_json.ip_boed : i \in EventsOf(events, lid)} \ {NoIp, BadIp}
  IN IF ips = {} THEN NoIp ELSE CHOOSE x \in ips : \A y \in ips : y <= x

\* C27: every carried context field of a chain row is the first non-null value
\* of that payload field among its lineage's events, whatever their region or
\* commodity, and ip_boed is the maximum numeric ip_boed among them.
C27_ContextFirstNonNull ==
  fn.op = "compute_chain_scores" =>
    \A k \in DOMAIN fn.rows :
      LET r == fn.rows[k]
      IN /\ \A f \in ContextFields :
              Get(r, f) = FirstNonNull(fn.events, r.lineage_id, f, NULL)
         /\ r.tickers = FirstNonNull(fn.events, r.lineage_id, "tickers", <<>>)
         /\ r.ip_boed = MaxNumericIp(fn.events, r.lineage_id)

\* ---- categories of event types --------------------------------------------------
MappedTypes ==
  _CATEGORY_A_TYPES \cup _CATEGORY_B_TYPES \cup _CATEGORY_C_TYPES
    \cup _CATEGORY_D_TYPES \cup _CATEGORY_E_TYPES \cup _CATEGORY_F_TYPES

EventType(event) == Lower(OrEmpty(Get(event.payload_json, "type")))

\* The events whose type is none of S.
WithoutTypes(events, S) == SelectSeq(events, LAMBDA e : EventType(e) \notin S)

\* The event types of a list that are outside the mapping.
Unmapped(events) == {EventType(events[j]) : j \in DOMAIN events} \ MappedTypes

\* C28 as stated: every type of the mapping gets exactly one category, a type
\* outside it gets none, and the events of types outside the mapping never
\* raise a row's convergence_score.
C28_UnmappedTypesCountNothing ==
  fn.op = "apply_convergence" =>
    /\ \A j \in DOMAIN fn.events :
         LET cats == _event_categories(fn.events[j].payload_json)
         IN /\ cats \subseteq Categories
            /\ EventType(fn.events[j]) \in MappedTypes => Cardinality(cats) = 1
            /\ EventType(fn.events[j]) \notin MappedTypes => cats = {}
    /\ \A i \in DOMAIN fn.rows :
         fn.value[i].convergence_score
           <= apply_convergence(fn.rows, WithoutTypes(fn.events, Unmapped(fn.events)),
                                fn.window_days)[i].convergence_score

\* C28: every event type gets at most one category: a type of the mapping
\* exactly one, a type outside it F when it contains one of the policy words
\* and none otherwise; the events of types outside the mapping without a policy
\* word change no row's convergence fields.
C28_AtMostOneCategory ==
  fn.op = "apply_convergence" =>
    /\ \A j \in DOMAIN fn.events :
         LET cats == _event_categories(fn.events[j].payload_json)
             t == EventType(fn.events[j])
         IN /\ cats \subseteq Categories
            /\ Cardinality(cats) <= 1
            /\ t \in MappedTypes => Cardinality(cats) = 1
            /\ (t \notin MappedTypes /\ t \in PolicyWordTypes) => cats = {"F"}
            /\ (t \notin MappedTypes /\ t \notin PolicyWordTypes) => cats = {}
    /\ fn.value = apply_convergence(fn.rows,
                    WithoutTypes(fn.events, Unmapped(fn.events) \ PolicyWordTypes),
                    fn.window_days)

\* C28 witness: a macro_outlook event and a spud report around a row anchored
\* at day 40: the first counts as F, the second as nothing.
C28_Witness ==
  /\ fn.op = "apply_convergence"
  /\ fn.rows = <<RowL1>>
  /\ fn.window_days = DefaultWindowDays
  /\ fn.events = <<ConvEvt(Days(30), "macro_outlook"), ConvEvt(Days(40), "spud_reported")>>
  /\ fn.value[1].convergence_categories = <<"F">>
  /\ fn.value[1].convergence_score = 1

\* ---- canonicalization of payloads that carry a company_id -----------------------
ResolvingAdapters == {"sec_edgar", "federal_register_rules", "nprm_congressional"}

CarriedCompanyIds == {NULL, "PRESET_CO", "PERMIAN_RESOURCES"}
CarriedTickers == {<<>>, <<"XYZ">>}

CanonPayloads ==
  {[Payload("Insider Buy", NULL, NULL, NULL, company, NULL, NULL)
      EXCEPT !.company_id = cid, !.tickers = tk] :
     company \in Mentions, cid \in CarriedCompanyIds, tk \in CarriedTickers}

InitCanon ==
  /\ event_log = {}
  /\ event_seq = 1
  /\ alerts = {}
  /\ alert_seq = 1
  /\ now = 0
  /\ fixture_file = SampleFixture
  /\ last = NoCall
  /\ writers = NoWriters
  /\ fn \in {[op |-> "payload", adapter |-> ad, payload |-> p] :
               ad \in ResolvingAdapters, p \in CanonPayloads}

CanonicalizePayload ==
  /\ fn.op = "payload"
  /\ fn' = [op |-> "_canonicalize_payload", adapter |-> fn.adapter, payload |-> fn.payload,
            value |-> canonicalize_payload(fn.adapter, fn.payload)]
  /\ UNCHANGED <<event_log, event_seq, alerts, alert_seq, now, fixture_file, last, writers>>

NextCanon == CanonicalizePayload

SpecCanon == InitCanon /\ [][NextCanon]_vars

\* What the resolver says of the payload's company.
ResolvedFor(payload) ==
  IF clean_str(payload.company) # NULL
    THEN resolve_company(clean_str(payload.company), NULL, Universe)
  ELSE ResolvedNone

\* C29 as stated: a payload that carries a company_id keeps it, and company_id
\* or tickers change only when the resolver succeeds and company_id was unset.
C29_CarriedCompanyIdKept ==
  fn.op = "_canonicalize_payload" =>
    /\ fn.payload.company_id # NULL => fn.value.company_id = fn.payload.company_id
    /\ (fn.value.company_id # fn.payload.company_id \/ fn.value.tickers # fn.payload.tickers)
         => /\ ResolvedFor(fn.payload).company_id # NULL
            /\ fn.payload.company_id = NULL

\* C29: when the resolver succeeds its company_id replaces whatever company_id
\* the payload carried, and its tickers are copied only into a payload without
\* tickers; when it does not succeed both fields are left as they were.
C29_ResolverCompanyIdWins ==
  fn.op = "_canonicalize_payload" =>
    LET resolved == ResolvedFor(fn.payload)
    IN IF resolved.company_id # NULL
         THEN /\ fn.value.company_id = resolved.company_id
              /\ fn.value.tickers = IF fn.payload.tickers = <<>> THEN resolved.tickers
                                    ELSE fn.payload.tickers
              /\ fn.value.lineage_id = <<LineagePrefix(fn.adapter), resolved.company_id>>
       ELSE /\ fn.value.company_id = fn.payload.company_id
            /\ fn.value.tickers = fn.payload.tickers

\* C29 witness: an SEC payload carrying company_id PRESET_CO and tickers XYZ
\* whose company resolves: the company_id is replaced, the tickers are kept.
C29_Witness ==
  /\ fn.op = "_canonicalize_payload"
  /\ fn.adapter = "sec_edgar"
  /\ fn.payload.company = "Permian Resources Corp"
  /\ fn.payload.company_id = "PRESET_CO"
  /\ fn.payload.tickers = <<"XYZ">>
  /\ fn.value.company_id = "PERMIAN_RESOURCES"
  /\ fn.value.tickers = <<"XYZ">>
  /\ fn.value.lineage_id = <<"SEC", "PERMIAN_RESOURCES">>

\* ---- one chain-progression alert per lineage and UTC day -------------------------
\* Two alert rows about the same lineage on the same UTC day.
SameLineageAndDay(a, b) ==
  /\ a.alert.event_type = "chain_progression"
  /\ b.alert.event_type = "chain_progression"
  /\ a.alert.details.lineage_id = b.alert.details.lineage_id
  /\ UtcDate(a.alert.ingest_time) = UtcDate(b.alert.ingest_time)

\* C30: whatever runs on a UTC day, the alerts table never gains a second
\* chain_progression alert for a lineage that already has one that day, and the
\* stored one stays as the first run wrote it (tier, score and summary), also
\* when the lineage's score has since risen into a higher tier.
C30_FirstAlertOfDayKept ==
  [][/\ \A a \in alerts : a \in alerts'
     /\ \A a \in alerts : \A b \in alerts' : SameLineageAndDay(a, b) => b = a]_vars

\* C30 witness: a run found the Texas lineage at 0.6 (medium) on a day whose
\* first run had alerted it at 0.3: it stored nothing, and the stored alert
\* still reads low.
C30_Witness ==
  /\ LastIsGenerate
  /\ last.ret = 0
  /\ \E i \in QualifyingRows :
       LET row == Take(compute_chain_scores(last.arg.events), last.arg.top_n)[i]
       IN /\ tier_for_score(row.score) = "medium"
          /\ \E r \in alerts :
               /\ r.alert.details.lineage_id = row.lineage_id
               /\ UtcDate(r.alert.ingest_time) = last.arg.utc_date
               /\ r.alert.tier = "low"
               /\ r.alert.score_summary.score = 30
               /\ r.alert.summary.tier = "LOW"
               /\ \A q \in alerts : q.alert.details.lineage_id = row.lineage_id
                                      /\ UtcDate(q.alert.ingest_time) = last.arg.utc_date
                                    => q = r

====
